---------------------------- MODULE Spec2Model ----------------------------
(***************************************************************************)
(* A model of the ID3 v2.4 tag codec of this repository (src/v24.go): the  *)
(* tag header, the extended header, the frame headers, tag-level and       *)
(* frame-level unsynchronization, the CRC and the padding, as Decode and   *)
(* Encode handle them.  Bytes are naturals 0..255, byte strings are        *)
(* sequences, flag words are sets of flag names that the flag maps         *)
(* translate from and to the wire bits.                                    *)
(***************************************************************************)
EXTENDS Integers, Sequences, FiniteSets, TLC

VARIABLES
    tag,      \* the Tag object handed to the codec
    stream,   \* the bytes of the source that Decode reads / the sink Encode writes
    err,      \* the error the last call returned
    pc,       \* what the last call was
    prev,     \* the Tag handed to the last Encode, as it was before the call
    rdErr,    \* the first error a reader met during the last Decode
    nbytes    \* the count of bytes the last call read or wrote

vars == <<tag, stream, err, pc, prev, rdErr, nbytes>>

(***************************************************************************)
(* Bounds of the model.                                                    *)
(***************************************************************************)
\* Longest frame payload a constructed tag carries.
MaxPayload == 2
\* Most frames in a constructed tag.
MaxFrames == 2
\* Longest byte string the unsynchronization functions are tried on.
MaxUnsyncLen == 4

(***************************************************************************)
(* Errors (src/id3.go:10-23, and the ones src/v24.go names).               *)
(***************************************************************************)
NoErr == "nil"
ErrInvalidTag == "ErrInvalidTag"
ErrInvalidVersion == "ErrInvalidVersion"
ErrBadSync == "ErrBadSync"
ErrInvalidHeader == "ErrInvalidHeader"
ErrFailedCRC == "ErrFailedCRC"
ErrInvalidFrameHeader == "ErrInvalidFrameHeader"
ErrInvalidFrameFlags == "ErrInvalidFrameFlags"
ErrInvalidGroupID == "ErrInvalidGroupID"
ErrInvalidEncryptMethod == "ErrInvalidEncryptMethod"
ErrInvalidEncoding == "ErrInvalidEncoding"
ErrInvalidLyricContentType == "ErrInvalidLyricContentType"
ErrInvalidPictureType == "ErrInvalidPictureType"
ErrInvalidTimeStampFormat == "ErrInvalidTimeStampFormat"
errPaddingEncountered == "errPaddingEncountered"
\* The byte source ended before Load had its bytes.
ErrUnexpectedEOF == "ErrUnexpectedEOF"
\* A consume asked for more than the reader's buffer holds.
errInsufficientBuffer == "errInsufficientBuffer"

(***************************************************************************)
(* Byte helpers.                                                           *)
(***************************************************************************)
Pow2(k) == 2 ^ k

Bit(v, k) == (v \div Pow2(k)) % 2

\* a ^ b for two bytes.
XorBit(a, b, k) == ((Bit(a, k) + Bit(b, k)) % 2) * Pow2(k)

Xor(a, b) ==
    (XorBit(a, b, 0) + XorBit(a, b, 1) + XorBit(a, b, 2) + XorBit(a, b, 3))
    + (XorBit(a, b, 4) + XorBit(a, b, 5) + XorBit(a, b, 6) + XorBit(a, b, 7))

Zeros(n) == [i \in 1..n |-> 0]

\* The element of a one-element set.  The steps of a call are chained as
\* Only({Last(s2) : s2 \in {First(s1) : s1 \in {start}}}): a step is applied to the
\* finished result of the step before it.
Only(S) == CHOOSE x \in S : TRUE

Take(s, n) == SubSeq(s, 1, n)

Drop(s, n) == SubSeq(s, n + 1, Len(s))

\* s with the bytes at 0-based offset off replaced by b (a write through a slice).
Patch(s, off, b) ==
    [i \in 1..Len(s) |-> IF i > off /\ i <= off + Len(b) THEN b[i - off] ELSE s[i]]

(***************************************************************************)
(* A uint32 is kept as its four bytes, most significant first: TLC's       *)
(* integers end at 2^31 - 1 and a CRC uses all 32 bits.                    *)
(***************************************************************************)
\* The low n bits of v, most significant first.
BitsOf(v, n) == [i \in 1..n |-> Bit(v, n - i)]

\* The bit of weight 2^k in a string of at most eight bits.
BitAt(bits, k) == IF k < Len(bits) THEN bits[Len(bits) - k] * Pow2(k) ELSE 0

\* The value of at most eight bits, most significant first.
BitsValue(bits) ==
    (BitAt(bits, 0) + BitAt(bits, 1) + BitAt(bits, 2) + BitAt(bits, 3))
    + (BitAt(bits, 4) + BitAt(bits, 5) + BitAt(bits, 6) + BitAt(bits, 7))

\* The bits of the bytes of b, n bits of each.
RECURSIVE ConcatBits(_, _)
ConcatBits(b, n) ==
    IF Len(b) = 0 THEN <<>>
    ELSE BitsOf(b[1], n) \o ConcatBits(Drop(b, 1), n)

\* int(u) for a uint32 below 2^31.
U32ToInt(u) == ((u[1] * 256 + u[2]) * 256 + u[3]) * 256 + u[4]

\* uint32(n) for an int n >= 0.
IntToU32(n) ==
    <<(n \div 16777216) % 256, (n \div 65536) % 256, (n \div 256) % 256, n % 256>>

U32Zero == <<0, 0, 0, 0>>

(***************************************************************************)
(* Sync-safe integers: 7 bits in each byte, most significant byte first.   *)
(* The slice is 4 bytes for the sizes and 5 bytes for the CRC of the       *)
(* extended header (35 bits, of which a uint32 keeps the low 32).          *)
(***************************************************************************)
decodeSyncSafeUint32(b) ==
    IF \E i \in 1..Len(b) : b[i] >= 128
    THEN [value |-> U32Zero, err |-> ErrBadSync]
    ELSE LET n == 7 * Len(b)
             bits == ConcatBits(b, 7)
             low == IF n < 32 THEN Zeros(32 - n) \o bits ELSE SubSeq(bits, n - 31, n)
         IN [value |-> [k \in 1..4 |-> BitsValue(SubSeq(low, 8 * k - 7, 8 * k))],
             err |-> NoErr]

\* The bytes left in the slice b and the error returned.
encodeSyncSafeUint32(b, value) ==
    LET n == 7 * Len(b)
        bits == ConcatBits(value, 8)
    IN IF n < 32 /\ \E i \in 1..(32 - n) : bits[i] = 1
       THEN [bytes |-> b, err |-> ErrBadSync]
       ELSE LET wide == IF n >= 32 THEN Zeros(n - 32) \o bits
                        ELSE SubSeq(bits, 33 - n, 32)
            IN [bytes |-> [i \in 1..Len(b) |-> BitsValue(SubSeq(wide, 7 * i - 6, 7 * i))],
                err |-> NoErr]

(***************************************************************************)
(* Unsynchronization.                                                      *)
(***************************************************************************)
\* The positions of the 0x00 bytes that follow a 0xFF.  A scan that skips the
\* 0x00 of every pair FF 00 drops exactly these: the 0xFF before one is never
\* dropped itself.
UnsyncCodes(b) == {i \in 2..Len(b) : b[i] = 0 /\ b[i - 1] = 255}

\* The k-th position of b, in order, that is not in the set skip.
KeptAt(b, skip, k) ==
    CHOOSE i \in (1..Len(b)) \ skip :
        Cardinality({j \in (1..Len(b)) \ skip : j <= i}) = k

removeUnsyncCodes(b) ==
    [k \in 1..(Len(b) - Cardinality(UnsyncCodes(b))) |-> b[KeptAt(b, UnsyncCodes(b), k)]]

\* The positions of the 0xFF bytes that get a 0x00 behind them.
FalseSyncs(b) ==
    {i \in 1..Len(b) : b[i] = 255 /\ (i = Len(b) \/ b[i + 1] >= 128)}

\* The position in the output of the byte at position i of b.
StuffedAt(b, i) == i + Cardinality({j \in FalseSyncs(b) : j < i})

addUnsyncCodes(b) ==
    [k \in 1..(Len(b) + Cardinality(FalseSyncs(b))) |->
        IF \E i \in 1..Len(b) : StuffedAt(b, i) = k
        THEN b[CHOOSE i \in 1..Len(b) : StuffedAt(b, i) = k]
        ELSE 0]

(***************************************************************************)
(* CRC-32/IEEE (hash/crc32.ChecksumIEEE): reflected polynomial 0xEDB88320, *)
(* initial value and final xor 0xFFFFFFFF, one table step per byte.        *)
(***************************************************************************)
IEEE == <<237, 184, 131, 32>>

Xor32(a, b) == <<Xor(a[1], b[1]), Xor(a[2], b[2]), Xor(a[3], b[3]), Xor(a[4], b[4])>>

\* u >> 1
Shr1(u) ==
    <<u[1] \div 2,
      (u[1] % 2) * 128 + (u[2] \div 2),
      (u[2] % 2) * 128 + (u[3] \div 2),
      (u[3] % 2) * 128 + (u[4] \div 2)>>

\* u >> 8
Shr8(u) == <<0, u[1], u[2], u[3]>>

\* One bit of the table's construction.
crcShift(c) == IF c[4] % 2 = 1 THEN Xor32(Shr1(c), IEEE) ELSE Shr1(c)

\* k bits of the table's construction; s holds the word so far and the bits to go.
RECURSIVE crcTableLoop(_)
crcTableLoop(s) ==
    IF s.k = 0 THEN s.c ELSE crcTableLoop([c |-> crcShift(s.c), k |-> s.k - 1])

crcTableEntry(c, k) == crcTableLoop([c |-> c, k |-> k])

IEEETable == [i \in 0..255 |-> crcTableEntry(<<0, 0, 0, i>>, 8)]

\* One table step: the CRC after the byte x.
crcStep(crc, x) == Xor32(IEEETable[Xor(crc[4], x)], Shr8(crc))

\* The loop over the bytes of p, in order: the first half of p, then the rest of
\* it from the CRC of the first half.
RECURSIVE crcUpdate(_, _)
crcUpdate(crc, p) ==
    IF Len(p) = 0 THEN crc
    ELSE IF Len(p) = 1 THEN crcStep(crc, p[1])
    ELSE Only({crcUpdate(c, Drop(p, Len(p) \div 2)) :
                 c \in {crcUpdate(crc, Take(p, Len(p) \div 2))}})

ChecksumIEEE(b) ==
    Xor32(crcUpdate(<<255, 255, 255, 255>>, b), <<255, 255, 255, 255>>)

(***************************************************************************)
(* Flag maps (src/v24.go:20-40): pairs of a wire bit and a flag.           *)
(***************************************************************************)
headerFlags ==
    << <<7, "Unsync">>, <<6, "Extended">>, <<5, "Experimental">>, <<4, "Footer">> >>

headerExFlags ==
    << <<6, "IsUpdate">>, <<5, "HasCRC">>, <<4, "HasRestrictions">> >>

frameFlags ==
    << <<14, "DiscardOnTagAlteration">>, <<13, "DiscardOnFileAlteration">>,
       <<12, "ReadOnly">>, <<6, "HasGroupID">>, <<3, "Compressed">>,
       <<2, "Encrypted">>, <<1, "Unsynchronized">>, <<0, "HasDataLength">> >>

\* flagMap.Decode: the flags whose wire bit is set in v.
FlagDecode(m, v) == {m[i][2] : i \in {j \in 1..Len(m) : Bit(v, m[j][1]) = 1}}

\* flagMap.Encode: the wire bits of the flags in fl.
RECURSIVE FlagEncode(_, _)
FlagEncode(m, fl) ==
    IF Len(m) = 0 THEN 0
    ELSE (IF m[1][2] \in fl THEN Pow2(m[1][1]) ELSE 0) + FlagEncode(Drop(m, 1), fl)

TagFlags ==
    {"Unsync", "Extended", "Experimental", "Footer", "IsUpdate", "HasCRC",
     "HasRestrictions"}

(***************************************************************************)
(* The reader: the unread source, the loaded and not yet consumed buffer,  *)
(* the count of bytes loaded and the sticky error.  A consume or a load    *)
(* that fails sets the error; from then on every operation returns zeros.  *)
(***************************************************************************)
newReader(src) == [src |-> src, buf |-> <<>>, n |-> 0, err |-> NoErr]

Load(r, n) ==
    IF r.err # NoErr THEN r
    ELSE IF Len(r.src) < n
         THEN [r EXCEPT !.buf = r.buf \o r.src, !.src = <<>>,
                        !.n = r.n + Len(r.src), !.err = ErrUnexpectedEOF]
         ELSE [r EXCEPT !.buf = r.buf \o Take(r.src, n), !.src = Drop(r.src, n),
                        !.n = r.n + n]

\* The reader once n bytes are consumed and dropped.
Discard(r, n) ==
    IF r.err # NoErr THEN r
    ELSE IF Len(r.buf) < n THEN [r EXCEPT !.err = errInsufficientBuffer]
    ELSE [r EXCEPT !.buf = Drop(r.buf, n)]

\* The reader afterwards and the bytes returned.
ConsumeBytes(r, n) ==
    IF r.err # NoErr \/ Len(r.buf) < n THEN [r |-> Discard(r, n), bytes |-> Zeros(n)]
    ELSE [r |-> Discard(r, n), bytes |-> Take(r.buf, n)]

ConsumeByte(r) ==
    LET c == ConsumeBytes(r, 1) IN [r |-> c.r, byte |-> c.bytes[1]]

ConsumeAll(r) ==
    IF r.err # NoErr THEN [r |-> r, bytes |-> <<>>]
    ELSE [r |-> [r EXCEPT !.buf = <<>>], bytes |-> r.buf]

ReplaceBuffer(r, b) == [r EXCEPT !.buf = b]

\* The parent afterwards and the new reader over the next n bytes.
ConsumeIntoNewReader(r, n) ==
    [r |-> Discard(r, n),
     sub |-> [src |-> <<>>,
              buf |-> IF Discard(r, n).err = NoErr THEN Take(r.buf, n) ELSE <<>>,
              n |-> 0, err |-> Discard(r, n).err]]

(***************************************************************************)
(* The writer: the staged buffer, the sticky error and the sink that Save  *)
(* flushes the buffer to.                                                  *)
(***************************************************************************)
newWriter(sink) == [buf |-> <<>>, err |-> NoErr, sink |-> sink]

StoreBytes(w, b) == IF w.err # NoErr THEN w ELSE [w EXCEPT !.buf = w.buf \o b]

StoreByte(w, b) == StoreBytes(w, <<b>>)

\* A write of b through w.SliceBuffer(off, Len(b)).
PatchBuffer(w, off, b) == [w EXCEPT !.buf = Patch(w.buf, off, b)]

\* The writer afterwards and the bytes lifted out from offset off on.
ConsumeBytesFromOffset(w, off) ==
    [w |-> [w EXCEPT !.buf = Take(w.buf, off)], bytes |-> Drop(w.buf, off)]

Save(w) ==
    IF w.err # NoErr THEN w
    ELSE [w EXCEPT !.sink = w.sink \o w.buf, !.buf = <<>>]

(***************************************************************************)
(* Tags and frames.  A frame is a header and the payload; the payload of a *)
(* frame with an ID the registry does not know is its opaque bytes.        *)
(***************************************************************************)
Version2_2 == 2

Version2_3 == 3

Version2_4 == 4

NewTag ==
    [Version |-> Version2_4, Flags |-> {}, Size |-> 0, Padding |-> 0,
     CRC |-> U32Zero, Restrictions |-> 0, Frames |-> <<>>]

NewFrameHeader(id, size, flags) ==
    [FrameID |-> id, Size |-> size, Flags |-> flags, GroupID |-> 0,
     EncryptMethod |-> 0, DataLength |-> 0]

HeaderOf(f) == f.Header

(***************************************************************************)
(* Encoded strings.  A string value is held as Go holds it, as the bytes   *)
(* of its UTF-8 form: a UTF-8 string is its own bytes, a byte of an        *)
(* ISO-8859-1 string and a code unit of a UTF-16 string become the UTF-8   *)
(* form of that code point.  Surrogate pairs are not among the strings of  *)
(* the model.                                                              *)
(***************************************************************************)
EncodingISO88591 == 0

EncodingUTF16BOM == 1

EncodingUTF16BE == 2

EncodingUTF8 == 3

ErrInvalidEncodedString == "ErrInvalidEncodedString"

RECURSIVE Flatten(_)
Flatten(ss) == IF Len(ss) = 0 THEN <<>> ELSE ss[1] \o Flatten(Drop(ss, 1))

\* The UTF-8 form of the code point c, c below 65536.
Utf8(c) ==
    IF c < 128 THEN <<c>>
    ELSE IF c < 2048 THEN <<192 + (c \div 64), 128 + (c % 64)>>
    ELSE <<224 + (c \div 4096), 128 + ((c \div 64) % 64), 128 + (c % 64)>>

\* The code units of b, two bytes each, the high byte first or last.
Units16(b, bigEndian) ==
    [i \in 1..(Len(b) \div 2) |->
        IF bigEndian THEN b[2 * i - 1] * 256 + b[2 * i]
        ELSE b[2 * i] * 256 + b[2 * i - 1]]

Utf16String(b, bigEndian) ==
    IF Len(b) % 2 # 0 THEN [str |-> <<>>, err |-> ErrInvalidEncodedString]
    ELSE [str |-> Flatten([i \in 1..(Len(b) \div 2) |-> Utf8(Units16(b, bigEndian)[i])]),
          err |-> NoErr]

\* The string that the bytes b hold under the encoding enc.
decodeString(b, enc) ==
    CASE enc = EncodingISO88591 ->
           [str |-> Flatten([i \in 1..Len(b) |-> Utf8(b[i])]), err |-> NoErr]
      [] enc = EncodingUTF16BE -> Utf16String(b, TRUE)
      [] enc = EncodingUTF16BOM ->
           IF Len(b) = 0 THEN [str |-> <<>>, err |-> NoErr]
           ELSE IF Len(b) >= 2 /\ Take(b, 2) = <<254, 255>>
                THEN Utf16String(Drop(b, 2), TRUE)
           ELSE IF Len(b) >= 2 /\ Take(b, 2) = <<255, 254>>
                THEN Utf16String(Drop(b, 2), FALSE)
           ELSE [str |-> <<>>, err |-> ErrInvalidEncodedString]
      [] OTHER -> [str |-> b, err |-> NoErr]

\* The width of the terminator of a string.
TermWidth(enc) == IF enc \in {EncodingUTF16BOM, EncodingUTF16BE} THEN 2 ELSE 1

\* Where the first terminator of b starts, on a code unit boundary; 0 if b has none.
TermAt(b, enc) ==
    LET w == TermWidth(enc)
        S == {i \in 1..(Len(b) - w + 1) :
                 (i - 1) % w = 0 /\ \A k \in 0..(w - 1) : b[i + k] = 0}
    IN IF S = {} THEN 0 ELSE CHOOSE i \in S : \A j \in S : i <= j

\* The string of b up to the terminator at k, and what of b is behind it.
StringUpTo(b, k, enc) ==
    IF k = 0 THEN [rest |-> <<>>, str |-> decodeString(b, enc).str,
                   err |-> decodeString(b, enc).err]
    ELSE [rest |-> Drop(b, k - 1 + TermWidth(enc)),
          str |-> decodeString(Take(b, k - 1), enc).str,
          err |-> decodeString(Take(b, k - 1), enc).err]

\* The string up to the next terminator, or up to the end of the buffer; the
\* terminator is consumed with it.
ConsumeNextString(r, enc) ==
    IF r.err # NoErr THEN [r |-> r, str |-> <<>>]
    ELSE Only({[r |-> [r EXCEPT !.buf = d.rest, !.err = d.err], str |-> d.str] :
               d \in {StringUpTo(r.buf, TermAt(r.buf, enc), enc)}})

\* The string of the next n bytes.
ConsumeFixedLengthString(r, n, enc) ==
    Only({IF c.r.err # NoErr THEN [r |-> c.r, str |-> <<>>]
          ELSE [r |-> [c.r EXCEPT !.err = decodeString(c.bytes, enc).err],
                str |-> decodeString(c.bytes, enc).str] :
          c \in {ConsumeBytes(r, n)}})

RECURSIVE SplitStrings(_, _)
SplitStrings(r, enc) ==
    IF r.err # NoErr \/ Len(r.buf) = 0 THEN [r |-> r, strs |-> <<>>]
    ELSE Only({Only({[r |-> rest.r, strs |-> <<c.str>> \o rest.strs] :
                     rest \in {SplitStrings(c.r, enc)}}) :
               c \in {ConsumeNextString(r, enc)}})

\* The strings of the rest of the buffer, one after the other.
ConsumeStrings(r, enc) ==
    IF r.err # NoErr THEN [r |-> r, strs |-> <<>>] ELSE SplitStrings(r, enc)

(***************************************************************************)
(* The scan of a frame's payload into the fields of its frame type         *)
(* (src/codec24.go:247-466).  A field has a name, a kind, the name of its  *)
(* type, its tags and, if it is a struct or a list of structs, the fields  *)
(* of the struct.  A scan is the scanner s over the frame's bytes, the     *)
(* scan state and the value v of the field in hand.  No frame of the model *)
(* has a field of 16 or of 64 bits, or one of type FrameID or FrameType.   *)
(***************************************************************************)
ErrInvalidFrame == "ErrInvalidFrame"

\* src/codec24.go:37-43
bounds ==
    [Encoding |-> <<0, 3>>, GroupSymbol |-> <<128, 240>>, PictureType |-> <<0, 20>>,
     TimeStampFormat |-> <<1, 2>>, LyricContentType |-> <<0, 8>>]

Field(name, kind, typ, tags, fields) ==
    [name |-> name, kind |-> kind, typ |-> typ, tags |-> tags, fields |-> fields]

HeaderField == Field("Header", "Struct", "FrameHeader", {}, <<>>)

EncodingField == Field("Encoding", "Uint8", "Encoding", {}, <<>>)

FrameUnknown == <<HeaderField, Field("Data", "ByteSlice", "", {}, <<>>)>>

FrameText == <<HeaderField, EncodingField, Field("Text", "StringSlice", "", {}, <<>>)>>

FrameURL == <<HeaderField, Field("URL", "String", "string", {"iso88519"}, <<>>)>>

FrameAttachedPicture ==
    <<HeaderField, EncodingField,
      Field("MimeType", "String", "string", {"iso88519"}, <<>>),
      Field("Type", "Uint8", "PictureType", {}, <<>>),
      Field("Description", "String", "string", {}, <<>>),
      Field("Data", "ByteSlice", "", {}, <<>>)>>

LyricsSync ==
    <<Field("Text", "String", "string", {}, <<>>),
      Field("TimeStamp", "Uint32", "uint32", {}, <<>>)>>

FrameLyricsSync ==
    <<HeaderField, EncodingField,
      Field("Language", "String", "string", {"lang"}, <<>>),
      Field("Format", "Uint8", "TimeStampFormat", {}, <<>>),
      Field("Type", "Uint8", "LyricContentType", {}, <<>>),
      Field("Descriptor", "String", "string", {}, <<>>),
      Field("Sync", "StructSlice", "", {}, LyricsSync)>>

FrameGroupID ==
    <<HeaderField, Field("Owner", "String", "string", {"iso88519"}, <<>>),
      Field("Group", "Uint8", "GroupSymbol", {}, <<>>),
      Field("Data", "ByteSlice", "", {}, <<>>)>>

IdTIT2 == <<84, 73, 84, 50>>

IdWCOM == <<87, 67, 79, 77>>

IdAPIC == <<65, 80, 73, 67>>

IdSYLT == <<83, 89, 76, 84>>

IdGRID == <<71, 82, 73, 68>>

\* c.frameTypes.LookupReflectType
LookupReflectType(id) ==
    CASE id = IdTIT2 -> FrameText
      [] id = IdWCOM -> FrameURL
      [] id = IdAPIC -> FrameAttachedPicture
      [] id = IdSYLT -> FrameLyricsSync
      [] id = IdGRID -> FrameGroupID
      [] OTHER -> FrameUnknown

\* The zero value of a field, and the one of a struct.
ZeroField(f) ==
    CASE f.kind = "Uint8" -> 0
      [] f.kind = "Uint32" -> U32Zero
      [] OTHER -> <<>>

ZeroStruct(fields) == [i \in 1..Len(fields) |-> ZeroField(fields[i])]

\* Lines 248-251
newState(frameID) == [frameID |-> frameID, encoding |-> EncodingISO88591]

\* Lines 360-386
scanString(sc, p) ==
    IF sc.s.err # NoErr THEN sc
    ELSE Only({IF c.r.err # NoErr THEN [sc EXCEPT !.s = c.r]
               ELSE [sc EXCEPT !.s = c.r, !.v = c.str] :
               c \in {IF "lang" \in p.tags
                      THEN ConsumeFixedLengthString(sc.s, 3, EncodingISO88591)
                      ELSE ConsumeNextString(sc.s, IF "iso88519" \in p.tags
                                                   THEN EncodingISO88591
                                                   ELSE sc.state.encoding)}})

\* Lines 388-395
scanByteSlice(sc, p) ==
    IF sc.s.err # NoErr THEN sc
    ELSE [sc EXCEPT !.s = ConsumeAll(sc.s).r, !.v = ConsumeAll(sc.s).bytes]

\* Lines 397-407
scanStringSlice(sc, p) ==
    IF sc.s.err # NoErr THEN sc
    ELSE Only({IF c.r.err # NoErr THEN [sc EXCEPT !.s = c.r]
               ELSE [sc EXCEPT !.s = c.r, !.v = c.strs] :
               c \in {ConsumeStrings(sc.s, sc.state.encoding)}})

\* The byte stored; the encoding of the strings is left as it is.
scanUint8KeepsEncoding(sc, p) ==
    IF sc.s.err # NoErr THEN sc
    ELSE Only({IF c.r.err # NoErr THEN [sc EXCEPT !.s = c.r]
               ELSE IF p.typ \in DOMAIN bounds
                       /\ (c.byte < bounds[p.typ][1] \/ c.byte > bounds[p.typ][2])
                    THEN [sc EXCEPT !.s = [c.r EXCEPT !.err = ErrInvalidFrame]]
               ELSE [sc EXCEPT !.s = c.r, !.v = c.byte] :
               c \in {ConsumeByte(sc.s)}})

\* Lines 438-466: a byte out of its bounds fails the scan before it is stored and
\* before it becomes the encoding of the strings that follow.
scanUint8(sc, p) ==
    IF sc.s.err # NoErr THEN sc
    ELSE Only({IF c.r.err # NoErr THEN [sc EXCEPT !.s = c.r]
               ELSE IF p.typ \in DOMAIN bounds
                       /\ (c.byte < bounds[p.typ][1] \/ c.byte > bounds[p.typ][2])
                    THEN [sc EXCEPT !.s = [c.r EXCEPT !.err = ErrInvalidFrame]]
               ELSE [sc EXCEPT !.s = c.r,
                               !.state.encoding = IF p.typ = "Encoding" THEN c.byte ELSE @,
                               !.v = c.byte] :
               c \in {ConsumeByte(sc.s)}})

\* Lines 500-507: the value is set whether or not the four bytes were there.
scanUint32(sc, p) ==
    IF sc.s.err # NoErr THEN sc
    ELSE Only({[sc EXCEPT !.s = c.r, !.v = c.bytes] : c \in {ConsumeBytes(sc.s, 4)}})

RECURSIVE scanStruct(_, _)

RECURSIVE scanElems(_, _, _)

\* Lines 415-435: elements are scanned as long as bytes are left; the list is set
\* once the buffer is drained, and left alone if an element fails.
scanElems(sc, p, elems) ==
    IF Len(sc.s.buf) = 0 THEN [sc EXCEPT !.v = elems]
    ELSE Only({IF e.s.err # NoErr THEN [e EXCEPT !.v = sc.v]
               ELSE scanElems([e EXCEPT !.v = sc.v], p, Append(elems, e.v)) :
               e \in {scanStruct([sc EXCEPT !.v = ZeroStruct(p.fields)],
                                 Field("", "Struct", "", {}, p.fields))}})

\* Lines 409-436
scanStructSlice(sc, p) == IF sc.s.err # NoErr THEN sc ELSE scanElems(sc, p, <<>>)

\* Lines 322-356: the scan of one field, by its kind.
scanField(sc, p) ==
    CASE p.kind = "Uint8" -> scanUint8(sc, p)
      [] p.kind = "Uint32" -> scanUint32(sc, p)
      [] p.kind = "ByteSlice" -> scanByteSlice(sc, p)
      [] p.kind = "StringSlice" -> scanStringSlice(sc, p)
      [] p.kind = "StructSlice" -> scanStructSlice(sc, p)
      [] p.kind = "String" -> scanString(sc, p)
      [] p.kind = "Struct" -> scanStruct(sc, p)

RECURSIVE scanFields(_, _, _)
\* Lines 314-357: the fields from the i-th on, each scanned into its place.
scanFields(sc, fields, i) ==
    IF i > Len(fields) THEN sc
    ELSE Only({scanFields([r EXCEPT !.v = [sc.v EXCEPT ![i] = r.v]], fields, i + 1) :
               r \in {scanField([sc EXCEPT !.v = sc.v[i]], fields[i])}})

\* Lines 309-358
scanStruct(sc, p) ==
    IF p.typ = "FrameHeader" THEN sc ELSE scanFields(sc, p.fields, 1)

\* Lines 247-272: the frame of the type that the ID selects, its fields after the
\* header in Data, if the scan of the bytes in r has not failed.
scanFrameType(r, id) ==
    Only({[f |-> [Header |-> NewFrameHeader(id, 0, {}),
                  Data |-> IF sc.s.err = NoErr THEN Drop(sc.v, 1) ELSE <<>>],
           err |-> sc.s.err] :
          sc \in {scanStruct([s |-> r, state |-> newState(id),
                              v |-> ZeroStruct(LookupReflectType(id))],
                             Field("", "Struct", "Frame", {}, LookupReflectType(id)))}})

\* reflector.ScanFrame: the payload of a frame of unknown ID is the rest of the
\* frame's bytes; a frame of a known ID is scanned field by field.
ScanFrame(r, id) ==
    IF LookupReflectType(id) # FrameUnknown THEN scanFrameType(r, id)
    ELSE LET c == ConsumeAll(r)
         IN [f |-> [Header |-> NewFrameHeader(id, 0, {}), Data |-> c.bytes],
             err |-> r.err]

\* reflector.SetFrameHeader
SetFrameHeader(f, h) == [f EXCEPT !.Header = h]

\* reflector.OutputFrame for a frame of unknown ID: its bytes, under its own ID.
OutputFrame(w, f) ==
    [w |-> StoreBytes(w, f.Data), frameID |-> f.Header.FrameID,
     err |-> StoreBytes(w, f.Data).err]

(***************************************************************************)
(* codec24.decodeFrame (src/v24.go:248-348), statement by statement.  The  *)
(* state of a call: the tag, the tag's reader r, the reader sub over the   *)
(* frame's own bytes, the header h being built, the frame f and the error  *)
(* returned (NoErr while the call goes on).                                *)
(***************************************************************************)
NoFrame == [Header |-> NewFrameHeader(<<0, 0, 0, 0>>, 0, {}), Data |-> <<>>]

newFrameDecoder(t, r) ==
    [t |-> t, r |-> r, sub |-> newReader(<<>>), h |-> NoFrame.Header, f |-> NoFrame,
     err |-> NoErr]

\* Lines 249-257: the frame ID; four zero bytes are padding.
decodeFrameID(fd) ==
    LET c == ConsumeBytes(fd.r, 4)
    IN IF c.r.err # NoErr THEN [fd EXCEPT !.r = c.r, !.err = c.r.err]
       ELSE IF c.bytes = <<0, 0, 0, 0>>
            THEN [fd EXCEPT !.r = c.r, !.err = errPaddingEncountered]
       ELSE [fd EXCEPT !.r = c.r, !.h.FrameID = c.bytes]

\* The size taken as it comes, zero as well.
FrameHeaderOfAnySize(fd, hd, size) ==
    IF size.err # NoErr THEN [fd EXCEPT !.err = size.err]
    ELSE [fd EXCEPT !.h = NewFrameHeader(fd.h.FrameID, U32ToInt(size.value),
                                         FlagDecode(frameFlags, hd[5] * 256 + hd[6]))]

\* Lines 265-282: the size and the flags out of the header bytes hd.
FrameHeaderOf(fd, hd, size) ==
    IF size.err # NoErr THEN [fd EXCEPT !.err = size.err]
    ELSE IF U32ToInt(size.value) < 1 THEN [fd EXCEPT !.err = ErrInvalidFrameHeader]
    ELSE [fd EXCEPT !.h = NewFrameHeader(fd.h.FrameID, U32ToInt(size.value),
                                         FlagDecode(frameFlags, hd[5] * 256 + hd[6]))]

\* Lines 259-282: the remaining six bytes of the frame header.
decodeFrameHeader(fd) ==
    IF fd.err # NoErr THEN fd
    ELSE LET c == ConsumeBytes(fd.r, 6)
         IN IF c.r.err # NoErr THEN [fd EXCEPT !.r = c.r, !.err = c.r.err]
            ELSE FrameHeaderOf([fd EXCEPT !.r = c.r], c.bytes,
                               decodeSyncSafeUint32(SubSeq(c.bytes, 1, 4)))

\* r.ReplaceBuffer(removeUnsyncCodes(r.ConsumeAll()))
StripUnsync(r) ==
    LET all == ConsumeAll(r) IN ReplaceBuffer(all.r, removeUnsyncCodes(all.bytes))

\* Lines 287-291: unsync codes are stripped if the frame is unsynchronized but the
\* tag is not.
FrameReaderOf(fd, n) ==
    [fd EXCEPT !.r = n.r,
               !.sub = IF "Unsynchronized" \in fd.h.Flags /\ "Unsync" \notin fd.t.Flags
                       THEN StripUnsync(n.sub)
                       ELSE n.sub]

\* Lines 284-291: the rest of the frame goes into a new reader.
decodeFrameReader(fd) ==
    IF fd.err # NoErr THEN fd
    ELSE FrameReaderOf(fd, ConsumeIntoNewReader(fd.r, fd.h.Size))

\* Line 294: extra header data is decoded only if some flag is set.
InExtraHeader(fd) == fd.err = NoErr /\ fd.h.Flags # {}

\* The flags taken as they come.
decodeFrameFlagsUnchecked(fd) == fd

\* Lines 296-299: a compressed frame must have a data length indicator.
decodeFrameFlags(fd) ==
    IF InExtraHeader(fd) /\ "Compressed" \in fd.h.Flags
                         /\ "HasDataLength" \notin fd.h.Flags
    THEN [fd EXCEPT !.err = ErrInvalidFrameFlags]
    ELSE fd

\* The group ID taken as it comes.
decodeGroupIDUnchecked(fd) ==
    IF ~InExtraHeader(fd) \/ "HasGroupID" \notin fd.h.Flags THEN fd
    ELSE LET c == ConsumeByte(fd.sub)
         IN IF c.r.err # NoErr THEN [fd EXCEPT !.sub = c.r, !.err = c.r.err]
            ELSE [fd EXCEPT !.sub = c.r, !.h.GroupID = c.byte]

\* Lines 301-310
decodeGroupID(fd) ==
    IF ~InExtraHeader(fd) \/ "HasGroupID" \notin fd.h.Flags THEN fd
    ELSE LET c == ConsumeByte(fd.sub)
         IN IF c.r.err # NoErr THEN [fd EXCEPT !.sub = c.r, !.err = c.r.err]
            ELSE IF c.byte < 128 \/ c.byte > 240
                 THEN [fd EXCEPT !.sub = c.r, !.err = ErrInvalidGroupID]
            ELSE [fd EXCEPT !.sub = c.r, !.h.GroupID = c.byte]

\* Lines 312-321
decodeEncryptMethod(fd) ==
    IF ~InExtraHeader(fd) \/ "Encrypted" \notin fd.h.Flags THEN fd
    ELSE LET c == ConsumeByte(fd.sub)
         IN IF c.r.err # NoErr THEN [fd EXCEPT !.sub = c.r, !.err = c.r.err]
            ELSE IF c.byte < 128 \/ c.byte > 240
                 THEN [fd EXCEPT !.sub = c.r, !.err = ErrInvalidEncryptMethod]
            ELSE [fd EXCEPT !.sub = c.r, !.h.EncryptMethod = c.byte]

\* Lines 328-331
DataLengthOf(fd, dl) ==
    [fd EXCEPT !.h.DataLength = U32ToInt(dl.value), !.err = dl.err]

\* Lines 323-332: a failed read of the data length is reported as an invalid frame
\* header.
decodeDataLength(fd) ==
    IF ~InExtraHeader(fd) \/ "HasDataLength" \notin fd.h.Flags THEN fd
    ELSE LET c == ConsumeBytes(fd.sub, 4)
         IN IF c.r.err # NoErr
            THEN [fd EXCEPT !.sub = c.r, !.err = ErrInvalidFrameHeader]
            ELSE DataLengthOf([fd EXCEPT !.sub = c.r], decodeSyncSafeUint32(c.bytes))

\* Lines 337-346
FrameOf(fd, sc) ==
    IF sc.err # NoErr THEN [fd EXCEPT !.err = sc.err]
    ELSE [fd EXCEPT !.f = SetFrameHeader(sc.f, fd.h)]

\* Lines 335-347: the fields of the frame, and the header copied into it.
decodeFrameFields(fd) ==
    IF fd.err # NoErr THEN fd ELSE FrameOf(fd, ScanFrame(fd.sub, fd.h.FrameID))

decodeFrame(t, r) ==
    Only({decodeFrameFields(s8) : s8 \in
         {decodeDataLength(s7) : s7 \in
         {decodeEncryptMethod(s6) : s6 \in
         {decodeGroupID(s5) : s5 \in
         {decodeFrameFlags(s4) : s4 \in
         {decodeFrameReader(s3) : s3 \in
         {decodeFrameHeader(s2) : s2 \in
         {decodeFrameID(s1) : s1 \in
         {newFrameDecoder(t, r)}}}}}}}}})

(***************************************************************************)
(* codec24.Decode (src/v24.go:131-246), statement by statement.  The state *)
(* of a call: the tag, the reader, the error returned (NoErr while the     *)
(* call goes on), the error of the reader of the frame that failed, and    *)
(* the locals exSize and exBytesConsumed.                                  *)
(***************************************************************************)
\* What the last call of decodeFrame left behind: the header it built, the
\* reader over the frame's bytes and the error it returned.
NoCall == [called |-> FALSE, h |-> NoFrame.Header, sub |-> newReader(<<>>), err |-> NoErr]

CallOf(res) == [called |-> TRUE, h |-> res.h, sub |-> res.sub, err |-> res.err]

newDecoder(t, r) ==
    [t |-> t, r |-> r, err |-> NoErr, subErr |-> NoErr, exSize |-> 0,
     exBytesConsumed |-> 0, last |-> NoCall]

\* if r.err != nil { return r.err }
CheckReader(d, r) == [d EXCEPT !.r = r, !.err = r.err]

\* Lines 132-135: the remaining six bytes of the tag header.
LoadHeader(d) == IF d.err # NoErr THEN d ELSE CheckReader(d, Load(d.r, 6))

\* Lines 147-152
TagSizeOf(d, size) ==
    IF size.err # NoErr THEN [d EXCEPT !.err = size.err]
    ELSE [d EXCEPT !.t.Size = U32ToInt(size.value)]

\* Lines 137-152: the header; the flags are assigned before the size is decoded.
DecodeHeader(d) ==
    IF d.err # NoErr THEN d
    ELSE LET c == ConsumeBytes(d.r, 10)
         IN IF c.bytes[5] # 0 THEN [d EXCEPT !.r = c.r, !.err = ErrInvalidTag]
            ELSE TagSizeOf([d EXCEPT !.r = c.r,
                                     !.t.Flags = FlagDecode(headerFlags, c.bytes[6])],
                           decodeSyncSafeUint32(SubSeq(c.bytes, 7, 10)))

\* Lines 154-157: the rest of the tag is loaded into the reader's buffer.
LoadTag(d) == IF d.err # NoErr THEN d ELSE CheckReader(d, Load(d.r, d.t.Size))

\* Lines 159-163: the tag-level unsync codes are removed.
DecodeUnsync(d) ==
    IF d.err # NoErr \/ "Unsync" \notin d.t.Flags THEN d
    ELSE [d EXCEPT !.r = StripUnsync(d.r)]

\* Line 166
InExtended(d) == d.err = NoErr /\ "Extended" \in d.t.Flags

\* Lines 167-170
ExSizeOf(d, exSize) ==
    IF exSize.err # NoErr THEN [d EXCEPT !.err = exSize.err]
    ELSE [d EXCEPT !.exSize = U32ToInt(exSize.value)]

DecodeExSize(d) ==
    IF ~InExtended(d) THEN d
    ELSE LET c == ConsumeBytes(d.r, 4)
         IN ExSizeOf([d EXCEPT !.r = c.r], decodeSyncSafeUint32(c.bytes))

\* Lines 172-174
DecodeExFlagsSize(d) ==
    IF ~InExtended(d) THEN d
    ELSE LET c == ConsumeByte(d.r)
         IN IF c.byte # 1 THEN [d EXCEPT !.r = c.r, !.err = ErrInvalidHeader]
            ELSE [d EXCEPT !.r = c.r]

\* Lines 176-181
DecodeExFlags(d) ==
    IF ~InExtended(d) THEN d
    ELSE LET c == ConsumeByte(d.r)
         IN [d EXCEPT !.r = c.r,
                      !.t.Flags = d.t.Flags \cup FlagDecode(headerExFlags, c.byte),
                      !.exBytesConsumed = 6]

\* Lines 183-186
DecodeExIsUpdate(d) ==
    IF ~InExtended(d) \/ "IsUpdate" \notin d.t.Flags THEN d
    ELSE [d EXCEPT !.r = ConsumeByte(d.r).r, !.exBytesConsumed = d.exBytesConsumed + 1]

\* Lines 193-197: t.CRC is assigned whether or not the five bytes are sync-safe.
ExCRCOf(d, crc) ==
    IF crc.err # NoErr THEN [d EXCEPT !.t.CRC = crc.value, !.err = ErrInvalidHeader]
    ELSE [d EXCEPT !.t.CRC = crc.value, !.exBytesConsumed = d.exBytesConsumed + 6]

\* Lines 188-198
DecodeExCRC(d) ==
    IF ~InExtended(d) \/ "HasCRC" \notin d.t.Flags THEN d
    ELSE LET c == ConsumeBytes(d.r, 6)
         IN IF c.bytes[1] # 5 THEN [d EXCEPT !.r = c.r, !.err = ErrInvalidHeader]
            ELSE ExCRCOf([d EXCEPT !.r = c.r], decodeSyncSafeUint32(SubSeq(c.bytes, 2, 6)))

\* Lines 204-205
ExRestrictionsOf(d, c) ==
    [d EXCEPT !.r = c.r, !.t.Restrictions = c.byte,
              !.exBytesConsumed = d.exBytesConsumed + 2]

\* Lines 200-206
DecodeExRestrictions(d) ==
    IF ~InExtended(d) \/ "HasRestrictions" \notin d.t.Flags THEN d
    ELSE LET c == ConsumeByte(d.r)
         IN IF c.byte # 1 THEN [d EXCEPT !.r = c.r, !.err = ErrInvalidHeader]
            ELSE ExRestrictionsOf(d, ConsumeByte(c.r))

\* The rest of the extended header is left where it is.
DecodeExRestNotSkipped(d) == IF ~InExtended(d) THEN d ELSE CheckReader(d, d.r)

\* Lines 208-215: the rest of the extended header is skipped, and only now is the
\* reader's error looked at.
DecodeExRest(d) ==
    IF ~InExtended(d) THEN d
    ELSE IF d.exBytesConsumed < d.exSize
         THEN CheckReader(d, Discard(d.r, d.exSize - d.exBytesConsumed))
         ELSE CheckReader(d, d.r)

\* The stored CRC is not looked at.
ValidateCRCSkipped(d) == d

\* Lines 218-224: the CRC of what is left in the buffer against the stored one.
ValidateCRC(d) ==
    IF d.err # NoErr \/ "HasCRC" \notin d.t.Flags THEN d
    ELSE IF ChecksumIEEE(d.r.buf) # d.t.CRC THEN [d EXCEPT !.err = ErrFailedCRC]
    ELSE d

RECURSIVE DecodeFrames(_)
\* Lines 232-242: padding ends the tag, an error ends Decode, a frame is appended.
FrameDecoded(d, res) ==
    IF res.err = errPaddingEncountered
    THEN [d EXCEPT !.t.Padding = Len(res.r.buf) + 4, !.r = ConsumeAll(res.r).r,
                   !.last = CallOf(res)]
    ELSE IF res.err # NoErr
         THEN [d EXCEPT !.r = res.r, !.err = res.err, !.subErr = res.sub.err,
                        !.last = CallOf(res)]
    ELSE DecodeFrames([d EXCEPT !.t.Frames = Append(d.t.Frames, res.f), !.r = res.r,
                                !.last = CallOf(res)])

\* Lines 226-243: the frames, until the buffer is empty or padding is met.
DecodeFrames(d) ==
    IF d.err # NoErr \/ Len(d.r.buf) = 0 THEN d
    ELSE FrameDecoded(d, decodeFrame(d.t, d.r))

\* Lines 165-216: the extended header.
DecodeExtendedHeader(d) ==
    Only({DecodeExRest(s7) : s7 \in
         {DecodeExRestrictions(s6) : s6 \in
         {DecodeExCRC(s5) : s5 \in
         {DecodeExIsUpdate(s4) : s4 \in
         {DecodeExFlags(s3) : s3 \in
         {DecodeExFlagsSize(s2) : s2 \in
         {DecodeExSize(s1) : s1 \in
         {d}}}}}}}})

\* Decode(t, r), r holding the four bytes the caller loaded to pick the codec.
Decode(t, r) ==
    Only({DecodeFrames(s7) : s7 \in
         {ValidateCRC(s6) : s6 \in
         {DecodeExtendedHeader(s5) : s5 \in
         {DecodeUnsync(s4) : s4 \in
         {LoadTag(s3) : s3 \in
         {DecodeHeader(s2) : s2 \in
         {LoadHeader(s1) : s1 \in
         {newDecoder(t, r)}}}}}}}})

(***************************************************************************)
(* codec24.encodeFrame (src/v24.go:430-510), statement by statement.  The  *)
(* state of a call: the tag, the frame, the writer, the header h, the      *)
(* error returned (NoErr while the call goes on) and the locals.           *)
(***************************************************************************)
\* encodeSyncSafeUint32(w.SliceBuffer(off, n), value); the error is dropped.
PatchSyncSafe(w, off, n, value) ==
    PatchBuffer(w, off, encodeSyncSafeUint32(SubSeq(w.buf, off + 1, off + n), value).bytes)

newFrameEncoder(t, f, w) ==
    [t |-> t, f |-> f, w |-> w, h |-> HeaderOf(f), err |-> NoErr, idOffset |-> 0,
     sizeOffset |-> 0, startOffset |-> 0, dataLengthOffset |-> -1,
     payloadOffset |-> 0, frameID |-> <<>>]

\* Lines 431-433: a placeholder for the frame ID.
encodeIDPlaceholder(fe) ==
    [fe EXCEPT !.idOffset = Len(fe.w.buf), !.w = StoreBytes(fe.w, <<0, 0, 0, 0>>)]

\* Lines 435-437: a placeholder for the frame size.
encodeSizePlaceholder(fe) ==
    [fe EXCEPT !.sizeOffset = Len(fe.w.buf), !.w = StoreBytes(fe.w, <<0, 0, 0, 0>>)]

\* Lines 443-445: a compressed frame gets a data length indicator.
encodeCompressed(fe) ==
    IF "Compressed" \in fe.h.Flags
    THEN [fe EXCEPT !.h.Flags = fe.h.Flags \cup {"HasDataLength"}]
    ELSE fe

\* Lines 447-448
FrameFlagsOf(fe, flags) ==
    [fe EXCEPT !.w = StoreByte(StoreByte(fe.w, flags \div 256), flags % 256)]

\* Lines 446-448: the frame header flags.
encodeFrameFlags(fe) == FrameFlagsOf(fe, FlagEncode(frameFlags, fe.h.Flags))

\* Lines 451-452
encodeStartOffset(fe) ==
    [fe EXCEPT !.startOffset = Len(fe.w.buf), !.dataLengthOffset = -1]

\* Lines 454-459: an invalid group ID sets the writer's error, so nothing is stored.
encodeGroupID(fe) ==
    IF fe.h.Flags = {} \/ "HasGroupID" \notin fe.h.Flags THEN fe
    ELSE [fe EXCEPT !.w = StoreByte(IF fe.h.GroupID < 128 \/ fe.h.GroupID > 240
                                    THEN [fe.w EXCEPT !.err = ErrInvalidGroupID]
                                    ELSE fe.w,
                                    fe.h.GroupID)]

\* Lines 461-466
encodeEncryptMethod(fe) ==
    IF fe.h.Flags = {} \/ "Encrypted" \notin fe.h.Flags THEN fe
    ELSE [fe EXCEPT !.w = StoreByte(IF fe.h.EncryptMethod < 128 \/ fe.h.EncryptMethod > 240
                                    THEN [fe.w EXCEPT !.err = ErrInvalidEncryptMethod]
                                    ELSE fe.w,
                                    fe.h.EncryptMethod)]

\* Lines 468-471: a placeholder for the data length.
encodeDataLengthPlaceholder(fe) ==
    IF fe.h.Flags = {} \/ "HasDataLength" \notin fe.h.Flags THEN fe
    ELSE [fe EXCEPT !.dataLengthOffset = Len(fe.w.buf),
                    !.w = StoreBytes(fe.w, <<0, 0, 0, 0>>)]

\* Lines 473-475
encodeExtraHeaderError(fe) ==
    IF fe.h.Flags # {} /\ fe.w.err # NoErr THEN [fe EXCEPT !.err = fe.w.err] ELSE fe

\* Lines 482-485
FrameOutput(fe, o) == [fe EXCEPT !.w = o.w, !.frameID = o.frameID, !.err = o.err]

\* Lines 478-485: the fields of the frame.
encodeFrameFields(fe) ==
    IF fe.err # NoErr THEN fe
    ELSE FrameOutput([fe EXCEPT !.payloadOffset = Len(fe.w.buf)], OutputFrame(fe.w, fe.f))

\* Lines 487-491: the data length written is the length of the payload.
encodeDataLength(fe) ==
    IF fe.err # NoErr \/ fe.dataLengthOffset <= -1 THEN fe
    ELSE [fe EXCEPT !.w = PatchSyncSafe(fe.w, fe.dataLengthOffset, 4,
                                        IntToU32(Len(fe.w.buf) - fe.payloadOffset))]

\* Lines 493-498: the frame-only unsync; the call is to removeUnsyncCodes.
encodeFrameUnsync(fe) ==
    IF fe.err # NoErr \/ "Unsynchronized" \notin fe.h.Flags \/ "Unsync" \in fe.t.Flags
    THEN fe
    ELSE LET c == ConsumeBytesFromOffset(fe.w, fe.startOffset)
         IN [fe EXCEPT !.w = StoreBytes(c.w, removeUnsyncCodes(c.bytes))]

\* Lines 500-503: the frame ID.
encodeFrameID(fe) ==
    IF fe.err # NoErr THEN fe
    ELSE [fe EXCEPT !.h.FrameID = fe.frameID,
                    !.w = PatchBuffer(fe.w, fe.idOffset, fe.frameID)]

\* Line 509: return w.err
FrameSizeOf(fe, w) == [fe EXCEPT !.w = w, !.err = w.err]

\* Lines 505-509: the frame size.
encodeFrameSize(fe) ==
    IF fe.err # NoErr THEN fe
    ELSE FrameSizeOf([fe EXCEPT !.h.Size = Len(fe.w.buf) - fe.startOffset],
                     PatchSyncSafe(fe.w, fe.sizeOffset, 4,
                                   IntToU32(Len(fe.w.buf) - fe.startOffset)))

encodeFrame(t, f, w) ==
    Only({encodeFrameSize(s14) : s14 \in
         {encodeFrameID(s13) : s13 \in
         {encodeFrameUnsync(s12) : s12 \in
         {encodeDataLength(s11) : s11 \in
         {encodeFrameFields(s10) : s10 \in
         {encodeExtraHeaderError(s9) : s9 \in
         {encodeDataLengthPlaceholder(s8) : s8 \in
         {encodeEncryptMethod(s7) : s7 \in
         {encodeGroupID(s6) : s6 \in
         {encodeStartOffset(s5) : s5 \in
         {encodeFrameFlags(s4) : s4 \in
         {encodeCompressed(s3) : s3 \in
         {encodeSizePlaceholder(s2) : s2 \in
         {encodeIDPlaceholder(s1) : s1 \in
         {newFrameEncoder(t, f, w)}}}}}}}}}}}}}}})

(***************************************************************************)
(* codec24.Encode (src/v24.go:350-428), statement by statement.  The state *)
(* of a call: the tag, the writer, the error returned and the offsets      *)
(* Encode keeps.                                                           *)
(***************************************************************************)
newEncoder(t, w) ==
    [t |-> t, w |-> w, err |-> NoErr, exHdrOffset |-> 0, crcOffset |-> -1,
     framesOffset |-> 0]

ExtendedFlags == {"HasCRC", "HasRestrictions", "IsUpdate"}

\* The flags left as the caller set them.
EncodeExtendedNever(e) == e

\* Lines 351-353: Extended is implied by the flags of the extended header.
EncodeExtended(e) ==
    IF e.t.Flags \cap ExtendedFlags # {}
    THEN [e EXCEPT !.t.Flags = e.t.Flags \cup {"Extended"}]
    ELSE e

\* Lines 355-359: the tag header, with a placeholder for the size.
EncodeHeader(e) ==
    [e EXCEPT !.w = StoreBytes(e.w, <<73, 68, 51, 4, 0,
                                      FlagEncode(headerFlags, e.t.Flags), 0, 0, 0, 0>>)]

\* Lines 363-369: the first six bytes of the extended header.
EncodeExHeader(e) ==
    IF "Extended" \notin e.t.Flags THEN e
    ELSE [e EXCEPT !.exHdrOffset = Len(e.w.buf),
                   !.w = StoreBytes(e.w, <<0, 0, 0, 0, 1,
                                           FlagEncode(headerExFlags, e.t.Flags)>>)]

\* Lines 371-373
EncodeExIsUpdate(e) ==
    IF "Extended" \notin e.t.Flags \/ "IsUpdate" \notin e.t.Flags THEN e
    ELSE [e EXCEPT !.w = StoreByte(e.w, 0)]

\* Lines 375-378: a placeholder for the CRC.
EncodeExCRC(e) ==
    IF "Extended" \notin e.t.Flags \/ "HasCRC" \notin e.t.Flags THEN e
    ELSE [e EXCEPT !.crcOffset = Len(e.w.buf) + 1,
                   !.w = StoreBytes(e.w, <<5, 0, 0, 0, 0, 0>>)]

\* Lines 380-382
EncodeExRestrictions(e) ==
    IF "Extended" \notin e.t.Flags \/ "HasRestrictions" \notin e.t.Flags THEN e
    ELSE [e EXCEPT !.w = StoreBytes(e.w, <<1, e.t.Restrictions>>)]

\* Lines 384-386: the size of the extended header.
EncodeExSize(e) ==
    IF "Extended" \notin e.t.Flags THEN e
    ELSE [e EXCEPT !.w = PatchSyncSafe(e.w, e.exHdrOffset, 4,
                                       IntToU32(Len(e.w.buf) - e.exHdrOffset))]

\* Lines 361-387: the extended header.
EncodeExtendedHeader(e) ==
    Only({EncodeExSize(s5) : s5 \in
         {EncodeExRestrictions(s4) : s4 \in
         {EncodeExCRC(s3) : s3 \in
         {EncodeExIsUpdate(s2) : s2 \in
         {EncodeExHeader(s1) : s1 \in
         {e}}}}}})

\* The frames taken from the last to the first.
RECURSIVE EncodeFrameListBackwards(_, _, _)
EncodeFrameListBackwards(t, fs, w) ==
    IF Len(fs) = 0 THEN [w |-> w, err |-> NoErr]
    ELSE LET res == encodeFrame(t, fs[Len(fs)], w)
         IN IF res.err # NoErr THEN [w |-> res.w, err |-> res.err]
            ELSE EncodeFrameListBackwards(t, Take(fs, Len(fs) - 1), res.w)

RECURSIVE EncodeFrameList(_, _, _)
\* Lines 392-394
FrameEncoded(t, fs, res) ==
    IF res.err # NoErr THEN [w |-> res.w, err |-> res.err]
    ELSE EncodeFrameList(t, Drop(fs, 1), res.w)

\* Lines 391-395: the frames, in the order of t.Frames.
EncodeFrameList(t, fs, w) ==
    IF Len(fs) = 0 THEN [w |-> w, err |-> NoErr]
    ELSE FrameEncoded(t, fs, encodeFrame(t, fs[1], w))

EncodedFrames(e, res) == [e EXCEPT !.w = res.w, !.err = res.err]

\* Lines 389-395
EncodeFrames(e) ==
    EncodedFrames([e EXCEPT !.framesOffset = Len(e.w.buf)],
                  EncodeFrameList(e.t, e.t.Frames, e.w))

\* As many zero bytes as t.Padding says, even fewer than four.
EncodePaddingAsGiven(e) ==
    IF e.err # NoErr \/ e.t.Padding <= 0 THEN e
    ELSE [e EXCEPT !.w = StoreBytes(e.w, Zeros(e.t.Padding))]

\* Lines 397-403: the padding, four bytes at least.
EncodePadding(e) ==
    IF e.err # NoErr \/ e.t.Padding <= 0 THEN e
    ELSE IF e.t.Padding < 4
         THEN [e EXCEPT !.t.Padding = 4, !.w = StoreBytes(e.w, Zeros(4))]
         ELSE [e EXCEPT !.w = StoreBytes(e.w, Zeros(e.t.Padding))]

\* The CRC written into four bytes instead of five.
CRCOfFourBytes(e, crc) ==
    [e EXCEPT !.t.CRC = crc, !.w = PatchSyncSafe(e.w, e.crcOffset + 1, 4, crc)]

\* Lines 409-411
CRCOf(e, crc) ==
    [e EXCEPT !.t.CRC = crc, !.w = PatchSyncSafe(e.w, e.crcOffset, 5, crc)]

\* Lines 405-412: the CRC of the frames and the padding, into the extended header.
EncodeCRC(e) ==
    IF e.err # NoErr \/ e.crcOffset <= -1 THEN e
    ELSE CRCOf(e, ChecksumIEEE(Drop(e.w.buf, e.framesOffset)))

\* Lines 414-418: the tag-level unsynchronization.
EncodeUnsync(e) ==
    IF e.err # NoErr \/ "Unsync" \notin e.t.Flags THEN e
    ELSE LET c == ConsumeBytesFromOffset(e.w, 10)
         IN [e EXCEPT !.w = StoreBytes(c.w, addUnsyncCodes(c.bytes))]

\* The size taken before the tag header is left out.
EncodeSizeWithHeader(e) ==
    IF e.err # NoErr THEN e
    ELSE [e EXCEPT !.t.Size = Len(e.w.buf),
                   !.w = PatchSyncSafe(e.w, 6, 4, IntToU32(Len(e.w.buf)))]

\* Lines 420-423: the size of the tag.
EncodeSize(e) ==
    IF e.err # NoErr THEN e
    ELSE [e EXCEPT !.t.Size = Len(e.w.buf) - 10,
                   !.w = PatchSyncSafe(e.w, 6, 4, IntToU32(Len(e.w.buf) - 10))]

\* _, err := w.Save(); return err
Saved(e, w) == [e EXCEPT !.w = w, !.err = w.err]

\* The writer's buffer is saved to the output stream whatever has happened.
EncodeSaveAlways(e) == [e EXCEPT !.w.sink = e.w.sink \o e.w.buf, !.w.buf = <<>>]

\* Lines 425-427: the writer's buffer is saved to the output stream.
EncodeSave(e) == IF e.err # NoErr THEN e ELSE Saved(e, Save(e.w))

Encode(t, w) ==
    Only({EncodeSave(s9) : s9 \in
         {EncodeSize(s8) : s8 \in
         {EncodeUnsync(s7) : s7 \in
         {EncodeCRC(s6) : s6 \in
         {EncodePadding(s5) : s5 \in
         {EncodeFrames(s4) : s4 \in
         {EncodeExtendedHeader(s3) : s3 \in
         {EncodeHeader(s2) : s2 \in
         {EncodeExtended(s1) : s1 \in
         {newEncoder(t, w)}}}}}}}}}})

(***************************************************************************)
(* Tag.ReadFrom and Tag.WriteTo: the calls that pick the codec.  ReadFrom  *)
(* is the one of src/unnamed/part_002:50-77, except that the file ID and   *)
(* the version byte stay in the reader's buffer: Decode loads "the         *)
(* remaining six bytes" and consumes ten (src/v24.go:132-138).  The result *)
(* is the state of the call at its return.                                 *)
(***************************************************************************)
newCodec(v) ==
    IF v \in {Version2_2, Version2_3, Version2_4} THEN NoErr ELSE ErrInvalidVersion

\* Lines 53-56: the three bytes of the file ID.
ReadFileID(d) == CheckReader(d, Load(d.r, 3))

\* Lines 58-62
CheckFileID(d) ==
    IF d.err # NoErr THEN d
    ELSE IF Take(d.r.buf, 3) # <<73, 68, 51>> THEN [d EXCEPT !.err = ErrInvalidTag]
    ELSE d

\* Lines 64-67
ReadVersion(d) == IF d.err # NoErr THEN d ELSE CheckReader(d, Load(d.r, 1))

\* Lines 68-72: the version is stored in the tag before the codec is looked up.
PickCodec(d) ==
    IF d.err # NoErr THEN d
    ELSE [d EXCEPT !.t.Version = d.r.buf[4], !.err = newCodec(d.r.buf[4])]

\* Lines 74-76: the codec of v2.4 (the files of the model have no other valid
\* version).
DecodeRest(d) == IF d.err # NoErr THEN d ELSE Decode(d.t, d.r)

ReadFrom(t, src) ==
    Only({DecodeRest(s5) : s5 \in
         {PickCodec(s4) : s4 \in
         {ReadVersion(s3) : s3 \in
         {CheckFileID(s2) : s2 \in
         {ReadFileID(s1) : s1 \in
         {newDecoder(t, newReader(src))}}}}}})

\* The codec is looked up by the tag's version and is handed a writer on the sink.
WriteTo(t, sink) ==
    IF newCodec(t.Version) # NoErr
    THEN [newEncoder(t, newWriter(sink)) EXCEPT !.err = ErrInvalidVersion]
    ELSE Encode(t, newWriter(sink))

\* The first error that a reader of the call d met.
ReaderError(d) == IF d.r.err # NoErr THEN d.r.err ELSE d.subErr

(***************************************************************************)
(* The tags a caller constructs.                                           *)
(***************************************************************************)
IdA == <<88, 88, 88, 65>>
IdB == <<88, 88, 88, 66>>

RECURSIVE SeqsUpTo(_, _)
SeqsUpTo(S, k) ==
    IF k = 0 THEN {<<>>}
    ELSE LET shorter == SeqsUpTo(S, k - 1)
         IN shorter \cup {Append(q, x) : q \in {p \in shorter : Len(p) = k - 1}, x \in S}

NewFrame(id, flags, gid, em, data) ==
    [Header |-> [NewFrameHeader(id, 0, flags) EXCEPT !.GroupID = gid,
                                                     !.EncryptMethod = em],
     Data |-> data]

PlainFrame(id, data) == NewFrame(id, {}, 0, 0, data)

BuildTag(flags, restrictions, padding, frames) ==
    [NewTag EXCEPT !.Flags = flags, !.Restrictions = restrictions,
                   !.Padding = padding, !.Frames = frames]

\* One frame, its payload every byte string over 00, E0, FF up to MaxPayload, or
\* FF 00 FF E0.
PayloadTags ==
    {BuildTag(fl, 0, pad, <<NewFrame(IdA, ff, 0, 0, data)>>) :
        fl \in {{}, {"Unsync"}, {"HasCRC"}, {"Unsync", "HasCRC"}},
        pad \in {0, 5},
        ff \in {{}, {"Unsynchronized"}},
        data \in SeqsUpTo({0, 224, 255}, MaxPayload) \cup {<<255, 0, 255, 224>>}}

\* One frame, under every set of the frame flags that announce extra header data.
FrameFlagTags ==
    {BuildTag({}, 0, 0, <<NewFrame(IdA, ff, gid, em, <<65>>)>>) :
        ff \in SUBSET {"ReadOnly", "HasGroupID", "Compressed", "Encrypted",
                       "HasDataLength"},
        gid \in {127, 128, 240},
        em \in {128, 241}}

\* Every set of tag flags but Footer, with and without a frame and padding.
TagFlagTags ==
    {BuildTag(fl, r, pad, frames) :
        fl \in SUBSET (TagFlags \ {"Footer"}),
        r \in {0, 16, 128, 255},
        pad \in {0, 1, 4},
        frames \in {<<>>, <<PlainFrame(IdA, <<65>>)>>}}

\* Up to MaxFrames frames.
FrameListTags ==
    {BuildTag(fl, 0, 0, frames) :
        fl \in {{}, {"Footer"}, {"HasCRC"}},
        frames \in SeqsUpTo({PlainFrame(IdA, <<65>>), PlainFrame(IdB, <<66, 66>>),
                             PlainFrame(IdB, <<>>)}, MaxFrames)}

\* Two frames and more, with and without a group ID or an encryption method that
\* is out of range.
FailingFrameTags ==
    {BuildTag(fl, 0, 0, frames) :
        fl \in {{}, {"HasCRC"}},
        frames \in SeqsUpTo({PlainFrame(IdA, <<65>>),
                             NewFrame(IdB, {"HasGroupID"}, 128, 0, <<66>>),
                             NewFrame(IdB, {"HasGroupID"}, 127, 0, <<66>>),
                             NewFrame(IdA, {"Encrypted"}, 0, 241, <<65>>)}, MaxFrames)
                   \ SeqsUpTo({PlainFrame(IdA, <<65>>)}, MaxFrames)}

BuiltTags ==
    PayloadTags \cup FrameFlagTags \cup TagFlagTags \cup FrameListTags
    \cup FailingFrameTags

(***************************************************************************)
(* The byte streams a file may hold: well formed tags and damaged ones.    *)
(***************************************************************************)
SyncSafe4(v) == encodeSyncSafeUint32(Zeros(4), IntToU32(v)).bytes

RawHeader(b4, flags, sizeBytes) == <<73, 68, 51, 4, b4, flags>> \o sizeBytes

RawTag(flags, body) == RawHeader(0, flags, SyncSafe4(Len(body))) \o body

RawFrame(id, sizeBytes, hi, lo, rest) == id \o sizeBytes \o <<hi, lo>> \o rest

SizedFrame(id, hi, lo, rest) == RawFrame(id, SyncSafe4(Len(rest)), hi, lo, rest)

RawFrameA == SizedFrame(IdA, 0, 0, <<65>>)
RawFrameB == SizedFrame(IdB, 0, 0, <<66, 66>>)

\* Damaged tag headers, short streams, sizes that do not fit the stream.
RawHeaderWires ==
    {RawHeader(b4, fl, sz) \o body :
        b4 \in {0, 1},
        fl \in {0, 128, 15},
        sz \in {SyncSafe4(0), SyncSafe4(11), SyncSafe4(12), SyncSafe4(15),
                <<0, 0, 128, 11>>},
        body \in {<<>>, RawFrameA, RawFrameA \o Zeros(4)}}
    \cup {<<73, 68>>, <<73, 68, 51>>, <<73, 68, 51, 4, 0>>,
          <<73, 68, 50, 4, 0, 0, 0, 0, 0, 0>>, <<73, 68, 51, 5, 0, 0, 0, 0, 0, 0>>}

\* An extended header: the sync-safe size, the count of flag bytes, the flag byte
\* and the data of the flags.
RawExt(sizeDelta, count, exFlags, data) ==
    SyncSafe4(6 + Len(data) + sizeDelta) \o <<count, exFlags>> \o data

\* A CRC block: the prefix and the five bytes of crc, the first of them or-ed with top.
RawCRC(prefix, top, crc) ==
    LET b == encodeSyncSafeUint32(Zeros(5), crc).bytes
    IN <<prefix, b[1] + top>> \o Drop(b, 1)

\* Extended headers of a tag whose frames and padding have the CRC crc.
RawExtHeaders(crc) ==
    {RawExt(d, c, 0, <<>>) : d \in {0, 2, -6}, c \in {1, 2}}
    \cup {RawExt(0, 1, 0, <<7, 7>>), RawExt(0, 1, 16, <<1, 16, 7>>)}
    \cup {RawExt(0, 1, 64, <<0>>), RawExt(0, 1, 96, <<0>> \o RawCRC(5, 0, crc))}
    \cup {RawExt(d, 1, 16, <<p, r>>) : d \in {0, 1}, p \in {1, 2}, r \in {16, 255}}
    \cup {RawExt(0, 1, 32, RawCRC(p, top, c)) :
            p \in {5, 4}, top \in {0, 16, 128},
            c \in {crc, U32Zero, <<255, 255, 255, 255>>}}
    \cup {RawExt(0, 1, 112, <<0>> \o RawCRC(5, 0, crc) \o <<1, 255>>)}

\* Tags with an extended header, whole and cut short inside it.
RawExtWires ==
    UNION {{RawTag(fl, ext \o p[1]) : ext \in RawExtHeaders(p[2]), fl \in {64, 192}} :
            p \in {<<rest, ChecksumIEEE(rest)>> :
                      rest \in {<<>>, RawFrameA, RawFrameA \o Zeros(5)}}}
    \cup UNION {{RawTag(64, Take(ext, k)) : k \in 0..(Len(ext) - 1)} :
            ext \in {RawExt(0, 1, 32, RawCRC(5, 0, <<0, 0, 0, 0>>)),
                     RawExt(0, 1, 16, <<1, 16>>), RawExt(0, 1, 64, <<0>>)}}

\* Frames, well formed and damaged.
RawFrames ==
    {RawFrameA,
     RawFrame(IdA, <<0, 0, 0, 0>>, 0, 0, <<>>),
     RawFrame(IdA, <<0, 0, 0, 128>>, 0, 0, <<65>>),
     RawFrame(IdA, SyncSafe4(5), 0, 0, <<65>>),
     RawFrame(<<0, 88, 88, 88>>, SyncSafe4(1), 0, 0, <<65>>),
     Take(RawFrameA, 7),
     SizedFrame(IdA, 128, 128, <<65>>),
     SizedFrame(IdA, 112, 0, <<65>>),
     SizedFrame(IdA, 0, 8, <<65>>),
     SizedFrame(IdA, 0, 9, <<0, 0, 0, 9, 65>>),
     SizedFrame(IdA, 0, 64, <<128, 65>>),
     SizedFrame(IdA, 0, 64, <<128>>),
     SizedFrame(IdA, 0, 64, <<127, 65>>),
     SizedFrame(IdA, 0, 4, <<240, 65>>),
     SizedFrame(IdA, 0, 4, <<241, 65>>),
     SizedFrame(IdA, 0, 1, <<0, 0, 0, 1, 65>>),
     SizedFrame(IdA, 0, 1, <<0, 0, 1, 0, 65>>),
     SizedFrame(IdA, 0, 1, <<0, 0, 0, 128, 65>>),
     SizedFrame(IdA, 0, 1, <<0, 0>>),
     SizedFrame(IdA, 0, 2, <<255, 0, 0>>),
     SizedFrame(IdA, 0, 2, <<255, 0, 224>>),
     SizedFrame(IdA, 0, 2, <<255, 224>>),
     SizedFrame(IdA, 0, 69, <<128, 129, 0, 0, 0, 1, 65>>),
     SizedFrame(IdA, 0, 68, <<128>>),
     SizedFrame(IdA, 0, 72, <<128, 65>>),
     SizedFrame(IdA, 0, 12, <<241, 65>>),
     SizedFrame(IdA, 0, 10, <<255, 0, 65>>),
     SizedFrame(IdA, 0, 73, <<128, 0, 0, 0, 1, 65>>),
     SizedFrame(IdA, 0, 68, <<128, 241, 65>>),
     SizedFrame(IdA, 0, 68, <<127, 241, 65>>),
     <<0, 0, 0, 0, 65>>}

\* Tags whose last frame is one of RawFrames, after none or one or two good frames
\* and before 0, 1, 4 or 6 bytes of zeros.
RawFrameWires ==
    {RawTag(fl, first \o f \o Zeros(pad)) :
        fl \in {0, 128},
        first \in {<<>>, RawFrameB, RawFrameB \o RawFrameA},
        f \in RawFrames,
        pad \in {0, 1, 4, 6}}

\* Tags followed in the file by the audio or by another tag.
RawTrailWires ==
    {RawTag(0, body) \o trail :
        body \in {<<>>, RawFrameA, RawFrameA \o Zeros(4)},
        trail \in {<<255, 251>>, RawTag(0, RawFrameB)}}

RawWires == RawHeaderWires \cup RawExtWires \cup RawFrameWires \cup RawTrailWires

(***************************************************************************)
(* The codec at work.  A caller either constructs a tag and writes it, or  *)
(* reads a tag from a file; what it has read it may write again, and what  *)
(* was written may be read back into a new Tag.                            *)
(***************************************************************************)
Init ==
    /\ \/ pc = "built" /\ tag \in BuiltTags /\ stream = <<>>
       \/ pc = "file" /\ tag = NewTag /\ stream \in RawWires
    /\ err = NoErr
    /\ prev = NewTag
    /\ rdErr = NoErr
    /\ nbytes = 0

\* The caller's view once WriteTo has returned: the tag, the file, the error.
Written(e) ==
    /\ tag' = e.t
    /\ stream' = e.w.sink
    /\ err' = e.err
    /\ nbytes' = Len(e.w.sink)

\* t.WriteTo(sink), the sink a new file.
EncodeTag ==
    /\ pc \in {"built", "parsed"}
    /\ err = NoErr
    /\ Written(WriteTo(tag, <<>>))
    /\ prev' = tag
    /\ rdErr' = NoErr
    /\ pc' = IF pc = "built" THEN "written" ELSE "rewritten"

\* The caller's view once ReadFrom has returned: the tag, the error, the first
\* error of a reader and the count of bytes loaded from the file.
Read(d) ==
    /\ tag' = d.t
    /\ err' = d.err
    /\ rdErr' = ReaderError(d)
    /\ nbytes' = d.r.n

\* var t Tag; t.ReadFrom(file)
DecodeTag ==
    /\ pc \in {"file", "written", "rewritten"}
    /\ err = NoErr
    /\ Read(ReadFrom(NewTag, stream))
    /\ pc' = CASE pc = "file" -> "parsed"
                [] pc = "written" -> "read"
                [] pc = "rewritten" -> "reread"
    /\ UNCHANGED <<stream, prev>>

Next == EncodeTag \/ DecodeTag

Spec == Init /\ [][Next]_vars

(***************************************************************************)
(* The unsynchronization scheme by itself: Encode's step on the bytes      *)
(* behind the tag header (src/v24.go:414-418) and then Decode's step on    *)
(* them (src/v24.go:159-163).  prev keeps the bytes as they were.          *)
(***************************************************************************)
UnsyncTag == [NewTag EXCEPT !.Flags = {"Unsync"}]

UnsyncBytes == {0, 1, 128, 224, 255}

InitUnsync ==
    /\ pc = "bytes"
    /\ stream \in SeqsUpTo(UnsyncBytes, MaxUnsyncLen)
    /\ prev = stream
    /\ tag = UnsyncTag
    /\ err = NoErr
    /\ rdErr = NoErr
    /\ nbytes = 0

\* The writer's buffer holds the ten bytes of the tag header and then the bytes.
AddUnsync ==
    /\ pc = "bytes"
    /\ stream' = Drop(EncodeUnsync([newEncoder(tag, newWriter(<<>>))
                                       EXCEPT !.w.buf = Zeros(10) \o stream]).w.buf, 10)
    /\ pc' = "added"
    /\ UNCHANGED <<tag, err, prev, rdErr, nbytes>>

\* The reader's buffer holds the bytes behind the tag header.
RemoveUnsync ==
    /\ pc = "added"
    /\ stream' = DecodeUnsync([newDecoder(tag, newReader(<<>>))
                                 EXCEPT !.r.buf = stream]).r.buf
    /\ pc' = "removed"
    /\ UNCHANGED <<tag, err, prev, rdErr, nbytes>>

NextUnsync == AddUnsync \/ RemoveUnsync

SpecUnsync == InitUnsync /\ [][NextUnsync]_vars

(***************************************************************************)
(* The sync-safe size by itself: WriteTo's size field (src/id3.go:121-126) *)
(* and ReadFrom's (src/id3.go:90-94).  The tag is the one of src/id3.go,   *)
(* its Size a uint32; prev keeps the size as it was.                       *)
(***************************************************************************)
SizedTag(size) == [Version |-> Version2_4, Flags |-> 0, Size |-> size]

\* Sizes on both sides of 2^28, up to 2^32 - 1.
Sizes ==
    {<<a, b, c, d>> : a \in {0, 15, 16, 128, 255}, b \in {0, 127, 255},
                      c \in {0, 128, 255}, d \in {0, 1, 127, 128, 255}}

\* Size fields as a file may hold them.
RawSizes == {<<a, b, c, d>> : a, b, c, d \in {0, 1, 127, 128, 255}}

InitSyncSafe ==
    /\ \/ pc = "size" /\ tag \in {SizedTag(v) : v \in Sizes} /\ stream = <<>>
       \/ pc = "file" /\ tag = SizedTag(U32Zero)
                      /\ stream \in {RawHeader(0, 0, b) : b \in RawSizes}
    /\ prev = tag.Size
    /\ err = NoErr
    /\ rdErr = NoErr
    /\ nbytes = 0

\* src/id3.go:121-126: the header and the error of the size.
SizeHeader(hdr, size) == [hdr |-> Patch(hdr, 6, size.bytes), err |-> size.err]

WriteSize(t) ==
    SizeHeader(<<73, 68, 51, t.Version, 0, t.Flags, 0, 0, 0, 0>>,
               encodeSyncSafeUint32(<<0, 0, 0, 0>>, t.Size))

\* The size read as four plain bytes.
ReadSizeBigEndian(t, hdr) == [t |-> [t EXCEPT !.Size = SubSeq(hdr, 7, 10)], err |-> NoErr]

\* src/id3.go:90-94: t.Size, err = decodeSyncSafeUint32(hdr[6:10])
SizeOf(t, size) == [t |-> [t EXCEPT !.Size = size.value], err |-> size.err]

ReadSize(t, hdr) == SizeOf(t, decodeSyncSafeUint32(SubSeq(hdr, 7, 10)))

\* Nothing is written if the size is rejected.
SizeWritten(h) ==
    /\ stream' = IF h.err # NoErr THEN stream ELSE h.hdr
    /\ err' = h.err

EncodeSizeField ==
    /\ pc = "size"
    /\ SizeWritten(WriteSize(tag))
    /\ pc' = "written"
    /\ UNCHANGED <<tag, prev, rdErr, nbytes>>

SizeRead(d) ==
    /\ tag' = d.t
    /\ err' = d.err

DecodeSizeField ==
    /\ pc \in {"file", "written"}
    /\ err = NoErr
    /\ SizeRead(ReadSize(SizedTag(U32Zero), stream))
    /\ pc' = IF pc = "file" THEN "fileread" ELSE "read"
    /\ UNCHANGED <<stream, prev, rdErr, nbytes>>

NextSyncSafe == EncodeSizeField \/ DecodeSizeField

SpecSyncSafe == InitSyncSafe /\ [][NextSyncSafe]_vars

(***************************************************************************)
(* The padding by itself: a file whose frames are followed by zero bytes   *)
(* is read by ReadFrom, and the tag read is written by WriteTo.  prev      *)
(* keeps the file and the count of the zero bytes behind its frames.       *)
(***************************************************************************)
\* Most zero bytes behind the frames, but for the file with a hundred of them.
MaxPadding == 6

PaddedBodies ==
    {<<>>, RawFrameA, RawFrameB, RawFrameB \o RawFrameA, RawFrameA \o RawFrameB,
     RawFrameA \o RawFrameA}

PaddedFile(fl, body, n) ==
    [file |-> IF Bit(fl, 6) = 1
              THEN RawTag(fl, RawExt(0, 1, 0, <<>>) \o body \o Zeros(n))
              ELSE RawTag(fl, body \o Zeros(n)),
     padding |-> n]

PaddedFiles ==
    {PaddedFile(fl, body, n) :
        fl \in {0, 64, 128}, body \in PaddedBodies, n \in (1..MaxPadding) \cup {100}}

InitPadding ==
    /\ pc = "padded"
    /\ prev \in PaddedFiles
    /\ stream = prev.file
    /\ tag = NewTag
    /\ err = NoErr
    /\ rdErr = NoErr
    /\ nbytes = 0

\* var t Tag; t.ReadFrom(file)
DecodePadded ==
    /\ pc = "padded"
    /\ Read(ReadFrom(NewTag, stream))
    /\ pc' = "padread"
    /\ UNCHANGED <<stream, prev>>

\* t.WriteTo(sink) of the tag that was read, the sink a new file.
EncodePadded ==
    /\ pc = "padread"
    /\ err = NoErr
    /\ Written(WriteTo(tag, <<>>))
    /\ pc' = "padwritten"
    /\ UNCHANGED <<prev, rdErr>>

NextPadding == DecodePadded \/ EncodePadded

SpecPadding == InitPadding /\ [][NextPadding]_vars

(***************************************************************************)
(* Files whose frames are of known types.  An input is the frames of a     *)
(* file in their order; of each frame it keeps the bytes, the payload and  *)
(* the bytes that have bounds, by the name of their bounds and in the      *)
(* order of the scan.  A caller reads the file into a new Tag.             *)
(***************************************************************************)
\* Most frames of a file with more than one frame.
MaxScanFrames == 2

\* The letter A, or e with an acute accent, under the encoding enc.
Str(enc, n) ==
    CASE enc = EncodingUTF16BOM -> IF n = 1 THEN <<255, 254, 65, 0>> ELSE <<254, 255, 0, 233>>
      [] enc = EncodingUTF16BE -> IF n = 1 THEN <<0, 65>> ELSE <<0, 233>>
      [] enc = EncodingISO88591 -> IF n = 1 THEN <<65>> ELSE <<233>>
      [] OTHER -> IF n = 1 THEN <<65>> ELSE <<195, 169>>

Term(enc) == Zeros(TermWidth(enc))

TypedFrame(id, lo, extra, payload, bounded) ==
    [bytes |-> SizedFrame(id, 0, lo, extra \o payload), payload |-> payload,
     bounded |-> bounded]

TextFrame(enc, n) ==
    TypedFrame(IdTIT2, 0, <<>>,
               <<enc>> \o (IF n = 1 THEN Str(enc, 1)
                           ELSE Str(enc, 1) \o Term(enc) \o Str(enc, 2)),
               <<<<"Encoding", enc>>>>)

PictureFrame(enc, type) ==
    TypedFrame(IdAPIC, 0, <<>>,
               <<enc, 105, 0, type>> \o Str(enc, 2) \o Term(enc) \o <<1, 2>>,
               <<<<"Encoding", enc>>, <<"PictureType", type>>>>)

LyricsFrame(enc, format, type, n) ==
    TypedFrame(IdSYLT, 0, <<>>,
               <<enc, 101, 110, 103, format, type>> \o Str(enc, 1) \o Term(enc)
               \o Flatten([i \in 1..n |-> Str(enc, i) \o Term(enc) \o <<0, 0, 1, i>>]),
               <<<<"Encoding", enc>>, <<"TimeStampFormat", format>>,
                 <<"LyricContentType", type>>>>)

GroupFrame(symbol) ==
    TypedFrame(IdGRID, 0, <<>>, <<111, 0, symbol, 9>>, <<<<"GroupID", symbol>>>>)

URLFrame == TypedFrame(IdWCOM, 0, <<>>, <<104, 233>>, <<>>)

\* A text frame that belongs to a group, and an encrypted one.
GroupedFrame(gid, enc) ==
    TypedFrame(IdTIT2, 64, <<gid>>, <<enc>> \o Str(enc, 1),
               <<<<"GroupID", gid>>, <<"Encoding", enc>>>>)

EncryptedFrame(gid, em) ==
    TypedFrame(IdTIT2, 68, <<gid, em>>, <<EncodingUTF8>> \o Str(EncodingUTF8, 2),
               <<<<"GroupID", gid>>, <<"EncryptMethod", em>>,
                 <<"Encoding", EncodingUTF8>>>>)

ScanFrames ==
    {TextFrame(enc, n) : enc \in {0, 1, 2, 3, 4, 255}, n \in 1..2}
    \cup {PictureFrame(enc, type) : enc \in {0, 2, 4}, type \in {0, 20, 21}}
    \cup {LyricsFrame(enc, format, type, 1) :
              enc \in {0, 1, 5}, format \in {0, 1, 2, 3}, type \in {0, 8, 9}}
    \cup {LyricsFrame(enc, 2, 8, 2) : enc \in {0, 2}}
    \cup {GroupFrame(symbol) : symbol \in {127, 128, 240, 241}}
    \cup {URLFrame}
    \cup {GroupedFrame(gid, enc) : gid \in {127, 128, 241}, enc \in {0, 4}}
    \cup {EncryptedFrame(gid, em) : gid \in {128, 255}, em \in {127, 240, 241}}

\* The frames that files of more than one frame are made of.
SeriesFrames ==
    {TextFrame(1, 2), TextFrame(2, 1), TextFrame(4, 1), TextFrame(0, 2),
     PictureFrame(2, 20), PictureFrame(0, 21), LyricsFrame(0, 1, 0, 1),
     LyricsFrame(1, 2, 8, 2), URLFrame, GroupFrame(128)}

ScanInputs ==
    {<<f>> : f \in ScanFrames}
    \cup UNION {[1..n -> SeriesFrames] : n \in 2..MaxScanFrames}

ScanFile(frames) == RawTag(0, Flatten([i \in 1..Len(frames) |-> frames[i].bytes]))

InitScan ==
    /\ pc = "file"
    /\ prev \in ScanInputs
    /\ stream = ScanFile(prev)
    /\ tag = NewTag
    /\ err = NoErr
    /\ rdErr = NoErr
    /\ nbytes = 0

NextScan == DecodeTag

SpecScan == InitScan /\ [][NextScan]_vars

(***************************************************************************)
(* A file that is damaged after it was written.  A caller writes a tag     *)
(* that has a CRC and reads the file back, or one byte behind the tag      *)
(* header is changed in the file before it is read into a new Tag.         *)
(***************************************************************************)
DamageTags ==
    {BuildTag(fl \cup {"HasCRC"}, 16, pad, frames) :
        fl \in SUBSET {"Unsync", "IsUpdate", "HasRestrictions"},
        pad \in {0, 4},
        frames \in {<<PlainFrame(IdA, <<65>>)>>,
                    <<PlainFrame(IdA, <<255, 224>>), PlainFrame(IdB, <<66>>)>>}}

\* The byte b with one of its bits flipped, and 0 and 255.
DamagedBytes(b) == ({Xor(b, Pow2(k)) : k \in 0..7} \cup {0, 255}) \ {b}

InitDamage ==
    /\ pc = "built"
    /\ tag \in DamageTags
    /\ stream = <<>>
    /\ err = NoErr
    /\ prev = NewTag
    /\ rdErr = NoErr
    /\ nbytes = 0

\* What is kept of the damage: the tag that was written, the file as it was and
\* the place of the byte that is changed.
Damage ==
    /\ pc = "written"
    /\ err = NoErr
    /\ \E i \in 11..Len(stream) :
          \E b \in DamagedBytes(stream[i]) :
             /\ stream' = [stream EXCEPT ![i] = b]
             /\ prev' = [tag |-> tag, file |-> stream, at |-> i]
    /\ pc' = "damaged"
    /\ UNCHANGED <<tag, err, rdErr, nbytes>>

\* var t Tag; t.ReadFrom(file), the file the damaged one.
DecodeDamaged ==
    /\ pc = "damaged"
    /\ Read(ReadFrom(NewTag, stream))
    /\ pc' = "damagedread"
    /\ UNCHANGED <<stream, prev>>

NextDamage == EncodeTag \/ DecodeTag \/ Damage \/ DecodeDamaged

SpecDamage == InitDamage /\ [][NextDamage]_vars

(***************************************************************************)
(* The frame header of version 2.3 by itself: a header is written by       *)
(* write23 and the bytes written are read by read23; the header bytes of a *)
(* file are read by read23.  A bufio.Reader is the bytes it still has to   *)
(* give, a bufio.Writer the bytes it has taken and the error it has met,   *)
(* after which it takes no more.  prev keeps the header that was written.  *)
(***************************************************************************)
ErrEOF == "EOF"

ErrShortWrite == "ErrShortWrite"

\* src/unnamed/part_000:10-17, with the ID under the name that read23 and write23
\* use.  The flags are the set of the names of the bits that are set.
FrameHeader23(id, size, flags) == [IDvalue |-> id, Size |-> size, Flags |-> flags]

\* src/unnamed/part_000:20-29
AllFrameFlags ==
    {"DiscardOnTagAlteration", "DiscardOnFileAlteration", "ReadOnly", "HasGroupID",
     "Compressed", "Encrypted", "Unsynchronized", "HasDataLength"}

\* bufio.Reader.Read(buf) with len(buf) = n: the bytes it gives, and io.EOF if it
\* has none.
ReaderRead(r, n) ==
    [bytes |-> IF Len(r) < n THEN r ELSE Take(r, n),
     err |-> IF Len(r) = 0 THEN ErrEOF ELSE NoErr]

\* bufio.Writer.Write and WriteString: the bytes taken and the error.
WriterWrite(w, b) ==
    IF w.err # NoErr THEN [w |-> w, n |-> 0, err |-> w.err]
    ELSE [w |-> [w EXCEPT !.buf = w.buf \o b], n |-> Len(b), err |-> NoErr]

\* binary.BigEndian.Uint16
Uint16(b) == b[1] * 256 + b[2]

\* binary.BigEndian.Uint32 and PutUint32; a uint32 is held as its four bytes, the
\* most significant first.
Uint32(b) == <<b[1], b[2], b[3], b[4]>>

PutUint32(v) == <<v[1], v[2], v[3], v[4]>>

\* The bits of the frame flags as version 2.4 has them.
read23FlagsAs24(flags) == FlagDecode(frameFlags, flags)

\* Lines 30-50 of src/unnamed/part_003
read23Flags(flags) ==
    IF flags = 0 THEN {}
    ELSE (IF Bit(flags, 15) # 0 THEN {"DiscardOnTagAlteration"} ELSE {})
         \cup (IF Bit(flags, 14) # 0 THEN {"DiscardOnFileAlteration"} ELSE {})
         \cup (IF Bit(flags, 13) # 0 THEN {"ReadOnly"} ELSE {})
         \cup (IF Bit(flags, 7) # 0 THEN {"Compressed"} ELSE {})
         \cup (IF Bit(flags, 6) # 0 THEN {"Encrypted"} ELSE {})
         \cup (IF Bit(flags, 5) # 0 THEN {"HasGroupID"} ELSE {})

\* Lines 26-51
read23Header(h, buf) ==
    [h EXCEPT !.IDvalue = SubSeq(buf, 1, 4),
              !.Size = Uint32(SubSeq(buf, 5, 8)),
              !.Flags = read23Flags(Uint16(SubSeq(buf, 9, 10)))]

\* Lines 20-24
read23Bytes(h, rd) ==
    IF Len(rd.bytes) < 10 \/ rd.err # NoErr
    THEN [h |-> h, n |-> Len(rd.bytes), err |-> rd.err]
    ELSE [h |-> read23Header(h, rd.bytes), n |-> Len(rd.bytes), err |-> NoErr]

\* Lines 19-52 of src/unnamed/part_003
read23(h, r) == read23Bytes(h, ReaderRead(r, 10))

\* Lines 66-86
write23Flags(fl) ==
    IF fl = {} THEN 0
    ELSE (IF "DiscardOnTagAlteration" \in fl THEN Pow2(15) ELSE 0)
         + (IF "DiscardOnFileAlteration" \in fl THEN Pow2(14) ELSE 0)
         + (IF "ReadOnly" \in fl THEN Pow2(13) ELSE 0)
         + (IF "Compressed" \in fl THEN Pow2(7) ELSE 0)
         + (IF "Encrypted" \in fl THEN Pow2(6) ELSE 0)
         + (IF "HasGroupID" \in fl THEN Pow2(5) ELSE 0)

\* Lines 63-64 and 87-88: the six bytes behind the ID.
write23Buf(h, flags) == PutUint32(h.Size) \o <<(flags \div 256) % 256, flags % 256>>

\* Lines 90-92
write23Rest(id, rest) == [w |-> rest.w, nn |-> id.n + rest.n, err |-> rest.err]

\* Lines 57-61
write23ID(h, id) ==
    IF id.err # NoErr THEN [w |-> id.w, nn |-> id.n, err |-> id.err]
    ELSE write23Rest(id, WriterWrite(id.w, write23Buf(h, write23Flags(h.Flags))))

\* Lines 54-93 of src/unnamed/part_003
write23(h, w) == write23ID(h, WriterWrite(w, h.IDvalue))

\* Headers with IDs of three, four and five bytes, sizes up to 2^32 - 1 and every
\* set of flags.
Headers23 ==
    {FrameHeader23(id, size, fl) :
        id \in {IdA, IdAPIC, <<84, 65, 76>>, <<88, 88, 88, 88, 65>>},
        size \in {<<0, 0, 0, 0>>, <<0, 0, 0, 128>>, <<0, 0, 1, 0>>,
                  <<16, 0, 0, 0>>, <<127, 255, 255, 255>>, <<255, 254, 253, 252>>},
        fl \in SUBSET AllFrameFlags}

\* The header bytes of a file, whole and cut short.
RawHeaders23 ==
    {id \o size \o <<hi, lo>> :
        id \in {IdA}, size \in {<<0, 0, 0, 128>>, <<1, 2, 3, 4>>, <<255, 0, 128, 9>>},
        hi \in {0, 16, 31, 32, 64, 128, 224, 255},
        lo \in {0, 1, 2, 8, 31, 32, 64, 128, 224, 255}}
    \cup {Take(IdA \o <<0, 0, 0, 5, 224, 224, 65>>, n) : n \in 0..11}

\* The header that read23 is called on has every flag set.
InitFrame23 ==
    /\ \/ /\ pc = "header"
          /\ tag \in Headers23
          /\ stream = <<>>
          /\ rdErr = NoErr
       \/ /\ pc = "header"
          /\ tag \in {FrameHeader23(IdA, <<0, 0, 0, 5>>, fl) : fl \in {{}, {"ReadOnly"}}}
          /\ stream = <<>>
          /\ rdErr = ErrShortWrite
       \/ /\ pc = "file"
          /\ tag = FrameHeader23(IdB, <<0, 0, 0, 9>>, AllFrameFlags)
          /\ stream \in RawHeaders23
          /\ rdErr = NoErr
    /\ prev = tag
    /\ err = NoErr
    /\ nbytes = 0

\* The writer is flushed to the sink.
WriteHeader23Of(wr) ==
    /\ stream' = wr.w.buf
    /\ nbytes' = wr.nn
    /\ err' = wr.err

WriteHeader23 ==
    /\ pc = "header"
    /\ WriteHeader23Of(write23(tag, [buf |-> <<>>, err |-> rdErr]))
    /\ pc' = "written"
    /\ UNCHANGED <<tag, prev, rdErr>>

ReadHeader23Of(rd) ==
    /\ tag' = rd.h
    /\ nbytes' = rd.n
    /\ err' = rd.err

ReadHeader23 ==
    /\ pc \in {"file", "written"}
    /\ err = NoErr
    /\ ReadHeader23Of(read23(FrameHeader23(IdB, <<0, 0, 0, 9>>, AllFrameFlags), stream))
    /\ pc' = IF pc = "file" THEN "parsed" ELSE "read"
    /\ UNCHANGED <<stream, prev, rdErr>>

NextFrame23 == WriteHeader23 \/ ReadHeader23

SpecFrame23 == InitFrame23 /\ [][NextFrame23]_vars

(***************************************************************************)
(* The loops of Decode, turn by turn.  The frame loop of codec24.Decode    *)
(* (src/v24.go:228-242) takes one turn in a step, on the call state that   *)
(* prev keeps; tag is the tag as the turns leave it.  The loop of          *)
(* scanStructSlice (src/codec24.go:415-430) takes one turn in a step on    *)
(* the bytes of a list of LyricsSync records; prev keeps the scanner and   *)
(* the elements scanned.  nbytes counts the turns.                         *)
(***************************************************************************)
\* Longest list of records that is made of any bytes.
MaxListLen == 10

\* ReadFrom and Decode up to the frame loop (src/v24.go:131-224).
DecodeToFrames(file) ==
    Only({ValidateCRC(s10) : s10 \in
         {DecodeExtendedHeader(s9) : s9 \in
         {DecodeUnsync(s8) : s8 \in
         {LoadTag(s7) : s7 \in
         {DecodeHeader(s6) : s6 \in
         {LoadHeader(s5) : s5 \in
         {PickCodec(s4) : s4 \in
         {ReadVersion(s3) : s3 \in
         {CheckFileID(s2) : s2 \in
         {ReadFileID(s1) : s1 \in
         {newDecoder(NewTag, newReader(file))}}}}}}}}}}})

\* Lines 229-241 of src/v24.go: one turn of the frame loop.
FrameTurn(d, res) ==
    IF res.err = errPaddingEncountered
    THEN [d EXCEPT !.t.Padding = Len(res.r.buf) + 4, !.r = ConsumeAll(res.r).r,
                   !.last = CallOf(res)]
    ELSE IF res.err # NoErr
         THEN [d EXCEPT !.r = res.r, !.err = res.err, !.subErr = res.sub.err,
                        !.last = CallOf(res)]
    ELSE [d EXCEPT !.t.Frames = Append(d.t.Frames, res.f), !.r = res.r,
                   !.last = CallOf(res)]

\* The scanner at the start of scanStructSlice: the bytes b of the frame that are
\* left for the list, and the encoding that the frame's Encoding byte has set.
ListScanner(b, enc) ==
    [sc |-> [s |-> [src |-> <<>>, buf |-> b, n |-> 0, err |-> NoErr],
             state |-> [frameID |-> IdSYLT, encoding |-> enc],
             v |-> <<>>],
     elems |-> <<>>]

\* Lines 416-429 of src/codec24.go: one turn of the loop, the element scanned as e.
ElemTurn(l, e) ==
    IF e.s.err # NoErr THEN [l EXCEPT !.sc = [e EXCEPT !.v = l.sc.v]]
    ELSE [l EXCEPT !.sc = [e EXCEPT !.v = l.sc.v], !.elems = Append(l.elems, e.v)]

\* Lists of any bytes, and lists of whole records with a byte order mark.
SyncLists ==
    SeqsUpTo({0, 65}, MaxListLen)
    \cup {<<255, 254, 65, 0, 0, 0, 0, 0, 0, 1>>, <<255, 254, 65, 0, 0, 0, 1, 2, 3>>,
          <<254, 255, 0, 65, 0, 0, 0, 0, 0, 1, 254, 255, 0, 0, 0, 0, 0, 2>>,
          <<255, 254, 0, 216>>, <<195, 0, 0, 0, 0, 1>>}

InitLoop ==
    /\ \/ /\ pc = "file"
          /\ stream \in RawWires
          /\ prev = newDecoder(NewTag, newReader(stream))
       \/ /\ pc = "list"
          /\ stream \in SyncLists
          /\ prev \in {ListScanner(stream, enc) :
                         enc \in {EncodingISO88591, EncodingUTF16BOM, EncodingUTF16BE,
                                  EncodingUTF8}}
    /\ tag = NewTag
    /\ err = NoErr
    /\ rdErr = NoErr
    /\ nbytes = 0

\* The call state d is kept; Decode has returned if d has an error or the loop has
\* met padding.
Turned(d, returned) ==
    /\ prev' = d
    /\ tag' = d.t
    /\ err' = d.err
    /\ rdErr' = ReaderError(d)
    /\ pc' = IF returned THEN "parsed" ELSE "frames"

\* Lines 131-224: all that comes before the frame loop.
DecodeBegin ==
    /\ pc = "file"
    /\ Turned(DecodeToFrames(stream), DecodeToFrames(stream).err # NoErr)
    /\ UNCHANGED <<stream, nbytes>>

FrameTurned(d) == Turned(d, d.err # NoErr \/ d.last.err = errPaddingEncountered)

\* Lines 228-242: the loop is entered with bytes left in the reader.
DecodeFrameTurn ==
    /\ pc = "frames"
    /\ Len(prev.r.buf) > 0
    /\ FrameTurned(FrameTurn(prev, decodeFrame(prev.t, prev.r)))
    /\ nbytes' = nbytes + 1
    /\ UNCHANGED stream

\* Lines 228 and 245: the loop is left with no byte in the reader.
DecodeEnd ==
    /\ pc = "frames"
    /\ Len(prev.r.buf) = 0
    /\ pc' = "parsed"
    /\ UNCHANGED <<tag, stream, err, prev, rdErr, nbytes>>

ElemTurned(l) ==
    /\ prev' = l
    /\ err' = l.sc.s.err
    /\ pc' = IF l.sc.s.err # NoErr THEN "scanned" ELSE "list"

\* Lines 415-429: the loop is entered with bytes left in the scanner.
ScanElemTurn ==
    /\ pc = "list"
    /\ Len(prev.sc.s.buf) > 0
    /\ ElemTurned(ElemTurn(prev, scanStruct([prev.sc EXCEPT !.v = ZeroStruct(LyricsSync)],
                                            Field("", "Struct", "", {}, LyricsSync))))
    /\ nbytes' = nbytes + 1
    /\ UNCHANGED <<tag, stream, rdErr>>

\* Lines 415 and 432-436: the loop is left and the list is set.
ScanEnd ==
    /\ pc = "list"
    /\ Len(prev.sc.s.buf) = 0
    /\ prev' = [prev EXCEPT !.sc.v = prev.elems]
    /\ pc' = "scanned"
    /\ UNCHANGED <<tag, stream, err, rdErr, nbytes>>

NextLoop == DecodeBegin \/ DecodeFrameTurn \/ DecodeEnd \/ ScanElemTurn \/ ScanEnd

\* A call goes on.
Going == pc \in {"file", "frames", "list"}

\* Go runs a call step by step to its end: weak fairness of NextLoop, which is
\* enabled in the states in which a call goes on and in no other, with Going
\* written for ENABLED <<NextLoop>>_vars.
LoopFairness == []<>(~Going) \/ []<><<NextLoop>>_vars

SpecLoop ==
    InitLoop /\ [][NextLoop]_vars /\ LoopFairness /\ WF_vars(DecodeEnd \/ ScanEnd)

(***************************************************************************)
(* The interactive shell (repl/repl.go).  The session state s is the       *)
(* variable tag and the state before the last command is prev; pc is the   *)
(* last command, stream its argument, rdErr the message of onFileOpen and  *)
(* err that of the other handlers, nbytes the count ReadFrom returned.     *)
(* A nil pointer is the empty sequence and a pointer to x is <<x>>.  The   *)
(* address of a Tag that onTagRead allocates is the file and the offset    *)
(* its bytes start at: no two tags alive in one session share them.  A     *)
(* frame pointer is the address of its tag and its index there, held with  *)
(* the frame it points to.                                                 *)
(***************************************************************************)
Nil == <<>>

Ptr(x) == <<x>>

ErrInvalidFilename == "ERROR: invalid filename."

ErrNotExist == "no such file or directory"

ErrNoActiveFile == "ERROR: No active file opened."

ErrNoActiveTag == "ERROR: No active tag."

ErrMissingArgument == "ERROR: command missing argument."

ErrFrameNotFound == "ERROR: Frame not found."

\* The files of the directory the shell runs in: two tags and the audio; two
\* tags that both hold the frame XXXA; a tag and a second one cut short; audio
\* alone; three bytes; a tag of version 2.5.
FileSystem ==
    [a |-> RawTag(0, RawFrameA) \o RawTag(0, RawFrameB) \o <<255, 251>>,
     b |-> RawTag(0, RawFrameB \o RawFrameA) \o RawTag(0, RawFrameA),
     c |-> RawTag(0, RawFrameA) \o RawHeader(0, 0, SyncSafe4(11)) \o IdA,
     d |-> <<255, 251, 144, 0, 0, 0, 0, 0, 0, 0, 0, 0>>,
     e |-> <<73, 68, 51>>,
     f |-> <<73, 68, 51, 5, 0, 0, 0, 0, 0, 0>>]

\* The names a command is given: the files, one that does not exist and none.
FileArgs == DOMAIN FileSystem \cup {"missing", ""}

\* state{}
NewState ==
    [activeFile |-> Nil, activeFileReader |-> Nil, activeFileBytesRead |-> 0,
     activeFilename |-> "", activeTag |-> Nil, activeFrame |-> Nil]

\* Closing the file leaves nothing in the state.
reset(s) == NewState

\* os.Open
Open(name) ==
    IF name \in DOMAIN FileSystem
    THEN [file |-> Ptr(name), err |-> NoErr]
    ELSE [file |-> Nil, err |-> ErrNotExist]

\* bufio.NewReader on the file: the bytes not yet read.
NewFileReader(file) == Ptr(FileSystem[file[1]])

\* bufio.Reader.Peek: the next n bytes, none of them consumed.
Peek(r, n) ==
    IF Len(r[1]) < n THEN [p |-> r[1], err |-> ErrEOF]
    ELSE [p |-> Take(r[1], n), err |-> NoErr]

\* The version and the size of the tag whose header the ten bytes are.
PeekTag(p) ==
    IF Take(p, 3) # <<73, 68, 51>>
    THEN [Version |-> 0, size |-> 0, err |-> ErrInvalidTag]
    ELSE [Version |-> p[4],
          size |-> U32ToInt(decodeSyncSafeUint32(SubSeq(p, 7, 10)).value),
          err |-> NoErr]

\* The offset in the active file of the next byte of its reader.
FileOffset(s) ==
    Len(FileSystem[s.activeFilename]) - Len(s.activeFileReader[1])

\* t := &id3.Tag{}
AllocTag(s, t) == Ptr([file |-> s.activeFilename, at |-> FileOffset(s), Tag |-> t])

\* The pointer to the i-th frame of the tag that tp points to.
FramePtr(tp, i) ==
    Ptr([file |-> tp[1].file, at |-> tp[1].at, i |-> i, Frame |-> tp[1].Tag.Frames[i]])

\* Lines 142-149, o what os.Open gave.
onFileOpened(s, args, o) ==
    IF o.err # NoErr THEN [s |-> s, err |-> o.err]
    ELSE [s |-> [reset(s) EXCEPT !.activeFile = o.file,
                                 !.activeFilename = args,
                                 !.activeFileReader = NewFileReader(o.file),
                                 !.activeFileBytesRead = 0],
          err |-> NoErr]

onFileOpen(s, args) ==
    IF args = "" THEN [s |-> s, err |-> ErrInvalidFilename]
    ELSE onFileOpened(s, args, Open(args))

\* Lines 191-202, d what ReadFrom left: the count goes up by what ReadFrom
\* loaded, and the tag becomes the active one if nothing failed.
onTagReadDone(s, d) ==
    [s |-> [s EXCEPT !.activeFileReader = Ptr(d.r.src),
                     !.activeFileBytesRead = @ + d.r.n,
                     !.activeTag = IF d.err # NoErr THEN @ ELSE AllocTag(s, d.t)],
     err |-> d.err, n |-> d.r.n]

\* Lines 189-190: the tag is read from the reader of the file.
onTagReadFrom(s) == onTagReadDone(s, ReadFrom(NewTag, s.activeFileReader[1]))

\* Lines 178-190, p what Peek gave.
onTagPeeked(s, p) ==
    IF p.err # NoErr THEN [s |-> s, err |-> p.err, n |-> 0]
    ELSE IF PeekTag(p.p).err # NoErr
         THEN [s |-> s, err |-> PeekTag(p.p).err, n |-> 0]
         ELSE onTagReadFrom(s)

onTagRead(s) ==
    IF s.activeFileReader = Nil THEN [s |-> s, err |-> ErrNoActiveFile, n |-> 0]
    ELSE onTagPeeked(s, Peek(s.activeFileReader, 10))

\* onFileOpen returns nil whether the file was opened or not, so that onTagRead
\* runs on the state it left in either case.
onFileRead(s, args) == onTagRead(onFileOpen(s, args).s)

onFileClose(s) ==
    IF s.activeFile = Nil THEN [s |-> s, err |-> ErrNoActiveFile]
    ELSE [s |-> reset(s), err |-> NoErr]

\* strings.ToUpper, on the bytes of an ASCII string.
ToUpper(b) == [k \in 1..Len(b) |-> IF b[k] \in 97..122 THEN b[k] - 32 ELSE b[k]]

\* The frame IDs a command is given.
FrameArgs == {IdA, IdB, <<120, 120, 120, 97>>, IdAPIC, <<>>}

\* Lines 252-259: the indexes of the frames of the active tag with the ID.
FramesOfID(s, frameID) ==
    {i \in 1..Len(s.activeTag[1].Tag.Frames) :
        HeaderOf(s.activeTag[1].Tag.Frames[i]).FrameID = frameID}

\* Lines 261-266, found the indexes of the frames with the ID: the first is taken.
onFrameFound(s, found) ==
    IF found = {} THEN [s |-> s, err |-> ErrFrameNotFound]
    ELSE [s |-> [s EXCEPT !.activeFrame =
                    FramePtr(s.activeTag, Only({i \in found : \A j \in found : i <= j}))],
          err |-> NoErr]

onFrameActivate(s, args) ==
    IF s.activeTag = Nil THEN [s |-> s, err |-> ErrNoActiveTag]
    ELSE IF ToUpper(args) = <<>> THEN [s |-> s, err |-> ErrMissingArgument]
    ELSE onFrameFound(s, FramesOfID(s, ToUpper(args)))

onFrameDeactivate(s) ==
    IF s.activeFrame = Nil THEN [s |-> s, err |-> ErrNoActiveTag]
    ELSE [s |-> [s EXCEPT !.activeFrame = Nil], err |-> NoErr]

InitRepl ==
    /\ tag = NewState
    /\ prev = NewState
    /\ pc = "start"
    /\ stream = ""
    /\ err = NoErr
    /\ rdErr = NoErr
    /\ nbytes = 0

\* The shell has run the command cmd on args: s is the state it leaves.
Ran(cmd, args, s, openErr, e, n) ==
    /\ pc' = cmd
    /\ stream' = args
    /\ prev' = tag
    /\ tag' = s
    /\ rdErr' = openErr
    /\ err' = e
    /\ nbytes' = n

\* The command has run a handler of the file or of the tag, o what it left.
RanOnFile(cmd, args, o, openErr) == Ran(cmd, args, o.s, openErr, o.err, o.n)

\* The command has run a handler that reads nothing, o what it left.
RanOn(cmd, args, o) == Ran(cmd, args, o.s, NoErr, o.err, 0)

FileOpen ==
    \E args \in FileArgs : Ran("file open", args, onFileOpen(tag, args).s,
                               onFileOpen(tag, args).err, NoErr, 0)

FileRead ==
    \E args \in FileArgs : RanOnFile("file read", args, onFileRead(tag, args),
                                     onFileOpen(tag, args).err)

FileClose == RanOn("file close", "", onFileClose(tag))

TagRead == RanOnFile("tag read", "", onTagRead(tag), NoErr)

FrameActivate ==
    \E args \in FrameArgs : RanOn("frame activate", args, onFrameActivate(tag, args))

FrameDeactivate == RanOn("frame deactivate", "", onFrameDeactivate(tag))

NextRepl ==
    FileOpen \/ FileRead \/ FileClose \/ TagRead \/ FrameActivate \/ FrameDeactivate

SpecRepl == InitRepl /\ [][NextRepl]_vars

(***************************************************************************)
(* Properties.  The states in which WriteTo has just returned, and those   *)
(* in which ReadFrom has.                                                  *)
(***************************************************************************)
Encoded == pc \in {"written", "rewritten"}

Decoded == pc \in {"parsed", "read", "reread"}

FrameIDs(fs) == [i \in 1..Len(fs) |-> fs[i].Header.FrameID]

Payloads(fs) == [i \in 1..Len(fs) |-> fs[i].Data]

\* The value of four sync-safe bytes, by the formula (b0<<21)|(b1<<14)|(b2<<7)|b3.
SyncSafeValue(b) == ((b[1] * 128 + b[2]) * 128 + b[3]) * 128 + b[4]

\* part occurs in b as a run of consecutive bytes.
Contains(b, part) ==
    \E i \in 0..(Len(b) - Len(part)) : SubSeq(b, i + 1, i + Len(part)) = part

\* The IDs of the frames that lie one after the other in b, up to the padding.
RECURSIVE WireFrameIDs(_)
WireFrameIDs(b) ==
    IF Len(b) < 10 \/ Take(b, 4) = <<0, 0, 0, 0>> THEN <<>>
    ELSE <<Take(b, 4)>> \o WireFrameIDs(Drop(b, 10 + SyncSafeValue(SubSeq(b, 5, 8))))

\* The frames of a tag that has neither the unsynchronization nor an extended header
\* lie right behind the tag header.
PlainLayout(t) == "Unsync" \notin t.Flags /\ "Extended" \notin t.Flags

SameHeader(g, h) ==
    /\ g.FrameID = h.FrameID
    /\ g.Flags = h.Flags
    /\ g.GroupID = h.GroupID
    /\ g.EncryptMethod = h.EncryptMethod
    /\ g.DataLength = h.DataLength

SameFrames(fs, gs) ==
    /\ Len(fs) = Len(gs)
    /\ \A i \in 1..Len(fs) : SameHeader(fs[i].Header, gs[i].Header) /\ fs[i].Data = gs[i].Data

\* C1 (tag roundtrip): a tag that Decode has produced is encoded without error, and
\* decoding what was written succeeds and gives a tag with the same version, flags,
\* restrictions and frames (frame ID, flags, group ID, encryption method, data length
\* and payload of every frame).  prev is the tag Decode had produced.
TagRoundtrip ==
    /\ pc = "rewritten" => err = NoErr
    /\ pc = "reread" =>
        /\ err = NoErr
        /\ tag.Version = prev.Version
        /\ tag.Flags = prev.Flags
        /\ tag.Restrictions = prev.Restrictions
        /\ SameFrames(tag.Frames, prev.Frames)

\* C2 (order preservation): the frame IDs on the wire that Encode wrote are those of
\* t.Frames in index order; the frames Decode appended are those of the wire in wire
\* order; and after a round trip the i-th frame has the ID of the i-th frame before
\* it, and its payload too if no unsynchronization is involved.
OrderPreserved ==
    /\ Encoded /\ err = NoErr /\ PlainLayout(tag) =>
        WireFrameIDs(Drop(stream, 10)) = FrameIDs(tag.Frames)
    /\ Decoded /\ err = NoErr /\ PlainLayout(tag) =>
        FrameIDs(tag.Frames) = WireFrameIDs(SubSeq(stream, 11, 10 + tag.Size))
    /\ pc \in {"read", "reread"} /\ err = NoErr =>
        /\ FrameIDs(tag.Frames) = FrameIDs(prev.Frames)
        /\ ("Unsync" \notin prev.Flags
            /\ \A i \in 1..Len(prev.Frames) :
                   "Unsynchronized" \notin prev.Frames[i].Header.Flags)
           => Payloads(tag.Frames) = Payloads(prev.Frames)

\* Two frames with different IDs and payloads have made the round trip.
OrderPreservedWitness ==
    /\ pc = "read"
    /\ err = NoErr
    /\ FrameIDs(tag.Frames) = <<IdB, IdA>>
    /\ Payloads(prev.Frames) = <<(<<66, 66>>), (<<65>>)>>

\* C3 (unsync roundtrip): removeUnsyncCodes(addUnsyncCodes(s)) = s for every byte
\* sequence s.  prev is s, stream the result.
UnsyncRoundtrip == pc = "removed" => stream = prev

\* No FF in b is the last byte of b or is followed by a byte >= 0x80.
NoFalseSync(b) ==
    \A i \in 1..Len(b) : b[i] = 255 => i < Len(b) /\ b[i + 1] < 128

HasPairFFE0(t) == \E i \in 1..Len(t.Frames) : Contains(t.Frames[i].Data, <<255, 224>>)

\* C4 (unsynchronization on the wire): what Encode writes behind the tag header of a
\* tag with Unsync has no FF followed by a byte >= 0x80; a payload with the pair
\* FF E0 is on the wire with FF 00 E0; and Decode of that wire gives the payloads
\* that were encoded.
UnsyncWire ==
    /\ Encoded /\ err = NoErr /\ "Unsync" \in tag.Flags => NoFalseSync(Drop(stream, 10))
    /\ Encoded /\ err = NoErr /\ "Unsync" \in tag.Flags /\ HasPairFFE0(tag) =>
        Contains(Drop(stream, 10), <<255, 0, 224>>)
    /\ pc \in {"read", "reread"} /\ "Unsync" \in prev.Flags /\ HasPairFFE0(prev) =>
        err = NoErr /\ Payloads(tag.Frames) = Payloads(prev.Frames)

\* C5 (sync-safe roundtrip): a size below 2^28 is encoded into four bytes with the
\* top bit clear and decodes to itself; a size of 2^28 or more is rejected; four
\* bytes of a file are rejected if and only if one of them has its top bit set, and
\* decode to (b0<<21)|(b1<<14)|(b2<<7)|b3 otherwise.  prev is the size encoded.
SyncSafeRoundtrip ==
    /\ pc = "written" =>
        /\ err = NoErr <=> prev[1] < 16
        /\ err # NoErr => err = ErrBadSync /\ stream = <<>>
        /\ err = NoErr => \A i \in 7..10 : stream[i] < 128
    /\ pc = "read" => err = NoErr /\ tag.Size = prev
    /\ pc = "fileread" =>
        /\ err = ErrBadSync <=> \E i \in 7..10 : stream[i] >= 128
        /\ err # ErrBadSync =>
            err = NoErr /\ tag.Size = IntToU32(SyncSafeValue(SubSeq(stream, 7, 10)))

\* The largest size, 2^28 - 1, has made the round trip.
SyncSafeRoundtripWitness ==
    /\ pc = "read"
    /\ err = NoErr
    /\ prev = <<15, 255, 255, 255>>
    /\ tag.Size = prev
    /\ SubSeq(stream, 7, 10) = <<127, 127, 127, 127>>

\* Encode of the tag t up to and including the CRC (src/v24.go:350-412).
EncoderAtCRC(t) ==
    Only({EncodeCRC(s6) : s6 \in
         {EncodePadding(s5) : s5 \in
         {EncodeFrames(s4) : s4 \in
         {EncodeExtendedHeader(s3) : s3 \in
         {EncodeHeader(s2) : s2 \in
         {EncodeExtended(s1) : s1 \in
         {newEncoder(t, newWriter(<<>>))}}}}}}})

\* ReadFrom of the file up to the CRC check (src/v24.go:131-216).
DecoderAtCRC(file) ==
    Only({DecodeExtendedHeader(s9) : s9 \in
         {DecodeUnsync(s8) : s8 \in
         {LoadTag(s7) : s7 \in
         {DecodeHeader(s6) : s6 \in
         {LoadHeader(s5) : s5 \in
         {PickCodec(s4) : s4 \in
         {ReadVersion(s3) : s3 \in
         {CheckFileID(s2) : s2 \in
         {ReadFileID(s1) : s1 \in
         {newDecoder(NewTag, newReader(file))}}}}}}}}}})

\* The 35 bits of five sync-safe bytes, the low 32 of them as a uint32.
CRCValue(b) ==
    LET bits == [i \in 1..35 |-> (b[((i - 1) \div 7) + 1] \div (2 ^ (6 - ((i - 1) % 7)))) % 2]
    IN [k \in 1..4 |->
           LET o == 3 + 8 * (k - 1)
           IN bits[o + 1] * 128 + bits[o + 2] * 64 + bits[o + 3] * 32 + bits[o + 4] * 16
              + bits[o + 5] * 8 + bits[o + 6] * 4 + bits[o + 7] * 2 + bits[o + 8]]

\* The offset of the five CRC bytes in a tag with the flags fl.
WireCRCOffset(fl) == IF "IsUpdate" \in fl THEN 18 ELSE 17

\* The offset of the frames in a tag with HasCRC and the flags fl.
WireFramesOffset(fl) ==
    WireCRCOffset(fl) + 5 + (IF "HasRestrictions" \in fl THEN 2 ELSE 0)

DecodedFields(t) == <<t.Flags, t.Size, t.CRC, t.Restrictions, t.Padding, t.Frames>>

\* C8 (no partial tag on failure): when Decode returns an error, the fields of the
\* tag that Decode assigns are as they were before the call.  The tag passed in is
\* NewTag with the version of the file.
NoPartialTag == Decoded /\ err # NoErr => DecodedFields(tag) = DecodedFields(NewTag)

\* C9 (first observed error): if a load or a consume of a reader has failed during
\* Decode, Decode returns that error.  rdErr is the first error of a reader.
FirstReaderError == Decoded /\ rdErr # NoErr => err = rdErr

Implied(fl) == fl \cap ExtendedFlags # {} => "Extended" \in fl

\* C10 (flag implications): after every Encode and every Decode each of HasCRC,
\* HasRestrictions and IsUpdate on the tag comes with Extended; Encode sets Extended
\* on the tag and in the flag byte it writes whenever one of the three is set; and
\* Decode sets one of the three only if the flag byte has Extended.
FlagImplications ==
    /\ Encoded =>
        /\ Implied(tag.Flags)
        /\ prev.Flags \cap ExtendedFlags # {} => "Extended" \in tag.Flags
        /\ err = NoErr /\ tag.Flags \cap ExtendedFlags # {} => Bit(stream[6], 6) = 1
    /\ Decoded =>
        /\ Implied(tag.Flags)
        /\ tag.Flags \cap ExtendedFlags # {} => Bit(stream[6], 6) = 1

\* A tag built with HasRestrictions and without Extended has been encoded.
FlagImplicationsWitness ==
    /\ pc = "written"
    /\ err = NoErr
    /\ "HasRestrictions" \in prev.Flags
    /\ "Extended" \notin prev.Flags
    /\ "Extended" \in tag.Flags
    /\ Bit(stream[6], 6) = 1

\* The frames that lie one after the other in b, up to the padding: the ID, the
\* flag word and the bytes behind the ten bytes of the frame header.
RECURSIVE WireFrames(_)
WireFrames(b) ==
    IF Len(b) < 10 \/ Take(b, 4) = <<0, 0, 0, 0>> THEN <<>>
    ELSE <<[id |-> Take(b, 4), flags |-> b[9] * 256 + b[10],
            body |-> SubSeq(b, 11, 10 + SyncSafeValue(SubSeq(b, 5, 8)))]>>
         \o WireFrames(Drop(b, 10 + SyncSafeValue(SubSeq(b, 5, 8))))

DataLengthImplied(fl) == "Compressed" \in fl => "HasDataLength" \in fl

\* The count of the extra header bytes that the flags fl announce before the data
\* length.
ExtraBefore(fl) ==
    (IF "HasGroupID" \in fl THEN 1 ELSE 0) + (IF "Encrypted" \in fl THEN 1 ELSE 0)

\* C11 (Compressed => HasDataLength): no frame of a successfully decoded tag has
\* Compressed without HasDataLength; a frame whose header decodeFrame has read with
\* Compressed and without HasDataLength makes Decode return ErrInvalidFrameFlags
\* with no group ID, encryption method or data length taken from the frame and all
\* of the frame's bytes still in its reader; and Encode writes, for every frame with
\* Compressed, the flag bits of Compressed and HasDataLength and a data length field
\* of four bytes behind the group ID and the encryption method.
CompressedDataLength ==
    /\ Decoded /\ err = NoErr =>
        \A i \in 1..Len(tag.Frames) : DataLengthImplied(tag.Frames[i].Header.Flags)
    /\ Decoded =>
        \A d \in {ReadFrom(NewTag, stream)} :
            d.last.called /\ ~DataLengthImplied(d.last.h.Flags) =>
                /\ err = ErrInvalidFrameFlags
                /\ d.last.h.GroupID = 0
                /\ d.last.h.EncryptMethod = 0
                /\ d.last.h.DataLength = 0
                /\ d.last.sub.err = NoErr /\ "Unsynchronized" \notin d.last.h.Flags =>
                    Len(d.last.sub.buf) = d.last.h.Size
    /\ Encoded /\ err = NoErr /\ PlainLayout(tag) =>
        \A w \in {WireFrames(Drop(stream, 10))} :
            /\ Len(w) = Len(tag.Frames)
            /\ \A i \in 1..Len(w) :
                "Compressed" \in tag.Frames[i].Header.Flags =>
                    /\ Bit(w[i].flags, 3) = 1
                    /\ Bit(w[i].flags, 0) = 1
                    /\ "Unsynchronized" \notin tag.Frames[i].Header.Flags =>
                        /\ Len(w[i].body) =
                            ExtraBefore(tag.Frames[i].Header.Flags) + 4
                            + Len(tag.Frames[i].Data)
                        /\ Drop(w[i].body, ExtraBefore(tag.Frames[i].Header.Flags) + 4)
                            = tag.Frames[i].Data

\* A file's frame with HasGroupID and Compressed and without HasDataLength has been
\* rejected.
CompressedDataLengthWitness ==
    /\ pc = "parsed"
    /\ err = ErrInvalidFrameFlags
    /\ Contains(stream, <<0, 72, 128, 65>>)

\* C12 (padding count and re-encode): a file whose frames are followed by n >= 1
\* zero bytes is decoded without error and with Padding = n, and the tag decoded is
\* encoded without error into the bytes of the file.  prev is the file and n.
PaddingReencode ==
    /\ pc = "padread" => err = NoErr /\ tag.Padding = prev.padding
    /\ pc = "padwritten" => err = NoErr /\ stream = prev.file

\* The count of the bytes that the frames w take, frame headers included.
RECURSIVE FramesExtent(_)
FramesExtent(w) ==
    IF Len(w) = 0 THEN 0 ELSE 10 + Len(w[1].body) + FramesExtent(Drop(w, 1))

\* The count of padding bytes for t.Padding = p.
PaddingWritten(p) == IF p <= 0 THEN 0 ELSE IF p < 4 THEN 4 ELSE p

\* The last k bytes of b are zero and the frames of b end where they begin.
PaddedBy(b, k) ==
    /\ Len(b) = FramesExtent(WireFrames(b)) + k
    /\ \A i \in 1..k : b[Len(b) - k + i] = 0

ExtraHeaderBytes(h, n) ==
    (IF "HasGroupID" \in h.Flags THEN <<h.GroupID>> ELSE <<>>)
    \o (IF "Encrypted" \in h.Flags THEN <<h.EncryptMethod>> ELSE <<>>)
    \o (IF "HasDataLength" \in h.Flags \/ "Compressed" \in h.Flags
        THEN SyncSafe4(n) ELSE <<>>)

\* The bytes of the frame f behind its frame header, before any unsynchronization.
FrameRegion(f) == ExtraHeaderBytes(f.Header, Len(f.Data)) \o f.Data

FrameUnsynchronized(f) == "Unsynchronized" \in f.Header.Flags

\* C14 (frame-level unsynchronization on encode): in the file of a tag without
\* Unsync, the bytes behind the frame header of every frame with Unsynchronized are
\* addUnsyncCodes of the frame's extra header and payload, and the size field counts
\* them; Decode of that file gives the payloads that were encoded; and the frames of a
\* tag with Unsync get no transform of their own.  prev is the tag handed to Encode.
FrameUnsyncEncoded ==
    /\ Encoded /\ err = NoErr /\ PlainLayout(tag) =>
        \A w \in {WireFrames(Drop(stream, 10))} :
            /\ Len(w) = Len(prev.Frames)
            /\ \A i \in 1..Len(w) :
                FrameUnsynchronized(prev.Frames[i]) =>
                    w[i].body = addUnsyncCodes(FrameRegion(prev.Frames[i]))
    /\ pc \in {"read", "reread"} /\ "Unsync" \notin prev.Flags
       /\ (\E i \in 1..Len(prev.Frames) : FrameUnsynchronized(prev.Frames[i])) =>
        err = NoErr /\ Payloads(tag.Frames) = Payloads(prev.Frames)
    /\ Encoded /\ err = NoErr /\ "Unsync" \in tag.Flags =>
        \A e \in {EncoderAtCRC(prev)} :
            \A w \in {WireFrames(Drop(e.w.buf, e.framesOffset))} :
                /\ Len(w) = Len(prev.Frames)
                /\ \A i \in 1..Len(w) : w[i].body = FrameRegion(prev.Frames[i])


(***************************************************************************)
(* C15.  A byte with bounds that is out of its range fails the decode with *)
(* the error of its kind (ErrInvalidEncoding for an encoding, and so on    *)
(* for a picture type, a time stamp format, a lyric content type, a group  *)
(* and an encryption method), and is never stored: the tag holds the       *)
(* frames before the one with the first such byte, and every byte with     *)
(* bounds that a stored frame holds is in its range.                       *)
(***************************************************************************)
\* src/v24.go:41-48
boundsV24 ==
    [Encoding |-> <<0, 3, ErrInvalidEncoding>>,
     EncryptMethod |-> <<128, 240, ErrInvalidEncryptMethod>>,
     GroupID |-> <<128, 240, ErrInvalidGroupID>>,
     LyricContentType |-> <<0, 8, ErrInvalidLyricContentType>>,
     PictureType |-> <<0, 20, ErrInvalidPictureType>>,
     TimeStampFormat |-> <<1, 2, ErrInvalidTimeStampFormat>>]

OutOfBounds(b) == b[2] < boundsV24[b[1]][1] \/ b[2] > boundsV24[b[1]][2]

\* The first of the frames that has a byte out of its bounds; 0 if none has.
FirstOutOfBounds(frames) ==
    LET S == {i \in 1..Len(frames) :
                 \E j \in 1..Len(frames[i].bounded) : OutOfBounds(frames[i].bounded[j])}
    IN IF S = {} THEN 0 ELSE CHOOSE i \in S : \A k \in S : i <= k

\* The error of the first byte of the frame that is out of its bounds.
BoundsError(bounded) ==
    LET S == {j \in 1..Len(bounded) : OutOfBounds(bounded[j])}
    IN boundsV24[bounded[CHOOSE j \in S : \A k \in S : j <= k][1]][3]

\* The bytes with bounds that the stored frame f holds.
StoredBounded(f) ==
    LET typ == LookupReflectType(f.Header.FrameID)
    IN {<<IF typ[i].typ = "GroupSymbol" THEN "GroupID" ELSE typ[i].typ, f.Data[i - 1]>> :
            i \in {i \in 2..Len(typ) : typ[i].typ \in DOMAIN bounds}}
       \cup (IF "HasGroupID" \in f.Header.Flags
             THEN {<<"GroupID", f.Header.GroupID>>} ELSE {})
       \cup (IF "Encrypted" \in f.Header.Flags
             THEN {<<"EncryptMethod", f.Header.EncryptMethod>>} ELSE {})

BoundsChecked ==
    pc = "parsed" =>
        /\ \A k \in {FirstOutOfBounds(prev)} :
              /\ k = 0 => err = NoErr /\ Len(tag.Frames) = Len(prev)
              /\ k # 0 => /\ err = BoundsError(prev[k].bounded)
                          /\ Len(tag.Frames) = k - 1
        /\ \A i \in 1..Len(tag.Frames) :
              \A b \in StoredBounded(tag.Frames[i]) : ~OutOfBounds(b)


(***************************************************************************)
(* C20.  The encoding state of the scan belongs to one frame.  Every frame *)
(* that a file's decode stores is the frame that its bytes give when they  *)
(* are decoded as the only frame of a file, whatever frames come before    *)
(* it, and the frame that the decode fails on fails alone with the same    *)
(* error.  The strings of a text frame are read under the frame's own      *)
(* encoding byte, and the string of a URL frame as ISO-8859-1.             *)
(***************************************************************************)
FrameAlone(i) == ReadFrom(NewTag, ScanFile(<<prev[i]>>))

PlainTyped(i, id) ==
    tag.Frames[i].Header.FrameID = id /\ tag.Frames[i].Header.Flags = {}

EncodingScoped ==
    pc = "parsed" =>
        /\ Len(tag.Frames) <= Len(prev)
        /\ \A i \in 1..Len(tag.Frames) :
              \A d \in {FrameAlone(i)} :
                 d.err = NoErr /\ d.t.Frames = <<tag.Frames[i]>>
        /\ err # NoErr =>
              /\ Len(tag.Frames) < Len(prev)
              /\ FrameAlone(Len(tag.Frames) + 1).err = err
        /\ \A i \in 1..Len(tag.Frames) :
              /\ PlainTyped(i, IdTIT2) =>
                    /\ tag.Frames[i].Data[1] = prev[i].payload[1]
                    /\ tag.Frames[i].Data[1] \in 0..3
                    /\ \A c \in {ConsumeStrings(ReplaceBuffer(newReader(<<>>),
                                                              Drop(prev[i].payload, 1)),
                                                prev[i].payload[1])} :
                          c.r.err = NoErr /\ tag.Frames[i].Data[2] = c.strs
              /\ PlainTyped(i, IdWCOM) =>
                    tag.Frames[i].Data[1]
                        = decodeString(prev[i].payload, EncodingISO88591).str

\* A text frame in Latin-1 read behind a text frame in UTF-16.
EncodingScopedWitness ==
    /\ pc = "parsed"
    /\ err = NoErr
    /\ Len(tag.Frames) = 2
    /\ tag.Frames[1].Header.FrameID = IdTIT2
    /\ tag.Frames[1].Data = <<EncodingUTF16BOM, <<<<65>>, <<195, 169>>>>>>
    /\ tag.Frames[2].Header.FrameID = IdTIT2
    /\ tag.Frames[2].Data = <<EncodingISO88591, <<<<65>>, <<195, 169>>>>>>
    /\ prev[2].payload = <<0, 65, 0, 233>>


(***************************************************************************)
(* C16.  A file written from a tag with HasCRC is read back without error. *)
(* If one byte of its frames or its padding, the bytes behind the extended *)
(* header, is changed, Decode fails with ErrFailedCRC.                     *)
(***************************************************************************)
\* Where the frames of the file start: behind the tag header and the extended
\* header, which holds no byte that the unsynchronization would stuff.
FramesStart(file) == 10 + DecoderAtCRC(file).exSize

CRCMismatch ==
    /\ pc = "read" => err = NoErr
    /\ pc = "damagedread" /\ prev.at > FramesStart(prev.file) => err = ErrFailedCRC

\* The last byte of the padding is changed.
CRCMismatchWitness ==
    /\ pc = "damagedread"
    /\ err = ErrFailedCRC
    /\ prev.tag.Padding = 4
    /\ prev.at = Len(stream)
    /\ stream[prev.at] # 0

\* C16 as it is claimed: whichever byte behind the tag header is changed, a byte
\* of the extended header and of the stored CRC too, Decode fails with ErrFailedCRC.
CRCMismatchAnyByte ==
    pc = "damagedread" => err = ErrFailedCRC


(***************************************************************************)
(* C17.  A frame header whose first ID byte is zero starts the padding,    *)
(* whatever its next three bytes are: no frame that Decode stores has an   *)
(* ID with a zero first byte.  When Decode has met padding, Padding is the *)
(* count of the bytes from there to the end of the tag, all bytes of the   *)
(* tag are consumed, and every byte counted in Padding is zero.            *)
(***************************************************************************)
NoFrameOfZeroID ==
    \A i \in 1..Len(tag.Frames) : tag.Frames[i].Header.FrameID[1] # 0

\* The bytes of the file that Padding counts, the last ones of the tag.
PaddingBytes == SubSeq(stream, 10 + tag.Size - tag.Padding + 1, 10 + tag.Size)

PaddingIsZeros ==
    err = NoErr /\ "Unsync" \notin tag.Flags /\ tag.Padding > 0 =>
        /\ tag.Padding <= tag.Size
        /\ PaddingBytes = Zeros(tag.Padding)

PaddingDetected ==
    pc = "parsed" =>
        /\ NoFrameOfZeroID
        /\ PaddingIsZeros
        /\ \A d \in {ReadFrom(NewTag, stream)} :
              d.last.called /\ d.last.err = errPaddingEncountered =>
                 /\ d.err = NoErr
                 /\ Len(d.r.buf) = 0
                 /\ tag.Padding >= 4


(***************************************************************************)
(* C18.  The extra header data of a frame.  Decode: a stored frame has     *)
(* taken its group ID, its encryption method and its data length off the   *)
(* frame's bytes in this order, each only if its flag is set, the payload  *)
(* is what follows, and a group ID or an encryption method that is stored  *)
(* lies in 0x80..0xF0; a group ID out of that range fails the decode with  *)
(* ErrInvalidGroupID before anything else of the frame is read, an         *)
(* encryption method out of range with ErrInvalidEncryptMethod behind a    *)
(* valid group ID.  Encode: the same fields are written in the same order  *)
(* before the payload; a frame whose group ID or encryption method is out  *)
(* of range makes Encode return the error of that field, and nothing is    *)
(* written to the file.                                                    *)
(***************************************************************************)
InRange(b) == b >= 128 /\ b <= 240

EncryptAt(fl) == IF "HasGroupID" \in fl THEN 2 ELSE 1

\* The fields that the flags fl announce, read off the bytes b of a frame.
ExtraFields(fl, b) ==
    [GroupID |-> IF "HasGroupID" \in fl THEN b[1] ELSE 0,
     EncryptMethod |-> IF "Encrypted" \in fl THEN b[EncryptAt(fl)] ELSE 0,
     DataLength |-> IF "HasDataLength" \in fl
                    THEN SyncSafeValue(SubSeq(b, ExtraBefore(fl) + 1, ExtraBefore(fl) + 4))
                    ELSE 0,
     Data |-> Drop(b, ExtraBefore(fl) + (IF "HasDataLength" \in fl THEN 4 ELSE 0))]

RECURSIVE StoredExtent(_)
StoredExtent(fs) ==
    IF Len(fs) = 0 THEN 0 ELSE 10 + fs[1].Header.Size + StoredExtent(Drop(fs, 1))

\* The bytes of the tag in the file, behind the tag header.
TagBody ==
    SubSeq(stream, 11, IF Len(stream) < 10 + tag.Size THEN Len(stream) ELSE 10 + tag.Size)

\* The bytes of the tag behind the frames that are stored.
BehindStored == Drop(TagBody, StoredExtent(tag.Frames))

\* The frame at the start of b is whole, its flags are well formed and announce
\* extra header data, and it is not unsynchronized.
WholeFlaggedFrame(b) ==
    /\ Len(b) > 10
    /\ \A i \in 5..8 : b[i] < 128
    /\ SyncSafeValue(SubSeq(b, 5, 8)) >= 1
    /\ Len(b) >= 10 + SyncSafeValue(SubSeq(b, 5, 8))
    /\ Take(b, 4) # <<0, 0, 0, 0>>
    /\ DataLengthImplied(FlagDecode(frameFlags, b[9] * 256 + b[10]))
    /\ "Unsynchronized" \notin FlagDecode(frameFlags, b[9] * 256 + b[10])

FailsOn(fl, b) ==
    IF "HasGroupID" \in fl /\ ~InRange(b[1]) THEN ErrInvalidGroupID
    ELSE IF "Encrypted" \in fl /\ Len(b) >= EncryptAt(fl) /\ ~InRange(b[EncryptAt(fl)])
         THEN ErrInvalidEncryptMethod
    ELSE NoErr

GroupIDInvalid(h) == "HasGroupID" \in h.Flags /\ ~InRange(h.GroupID)

EncryptMethodInvalid(h) == "Encrypted" \in h.Flags /\ ~InRange(h.EncryptMethod)

ExtraHeaderDecoded ==
    Decoded /\ PlainLayout(tag) =>
        /\ err = NoErr =>
              \A w \in {WireFrames(TagBody)} :
                 /\ Len(w) = Len(tag.Frames)
                 /\ \A i \in 1..Len(w) :
                      \A h \in {tag.Frames[i].Header} :
                         /\ ~GroupIDInvalid(h) /\ ~EncryptMethodInvalid(h)
                         /\ "Unsynchronized" \notin h.Flags =>
                               \A x \in {ExtraFields(h.Flags, w[i].body)} :
                                  /\ h.GroupID = x.GroupID
                                  /\ h.EncryptMethod = x.EncryptMethod
                                  /\ h.DataLength = x.DataLength
                                  /\ tag.Frames[i].Data = x.Data
        /\ err # NoErr /\ WholeFlaggedFrame(BehindStored) =>
              \A b \in {BehindStored} :
                 \A e \in {FailsOn(FlagDecode(frameFlags, b[9] * 256 + b[10]),
                                   SubSeq(b, 11, 10 + SyncSafeValue(SubSeq(b, 5, 8))))} :
                    /\ e # NoErr => err = e
                    /\ e = NoErr => err \notin {ErrInvalidGroupID, ErrInvalidEncryptMethod}

ExtraHeaderEncoded ==
    pc = "written" =>
        /\ (\E i \in 1..Len(prev.Frames) :
               GroupIDInvalid(prev.Frames[i].Header)
               \/ EncryptMethodInvalid(prev.Frames[i].Header))
           => /\ stream = <<>>
              /\ \A i \in {CHOOSE i \in 1..Len(prev.Frames) :
                              /\ GroupIDInvalid(prev.Frames[i].Header)
                                 \/ EncryptMethodInvalid(prev.Frames[i].Header)
                              /\ \A j \in 1..(i - 1) :
                                    /\ ~GroupIDInvalid(prev.Frames[j].Header)
                                    /\ ~EncryptMethodInvalid(prev.Frames[j].Header)} :
                    err = IF EncryptMethodInvalid(prev.Frames[i].Header)
                          THEN ErrInvalidEncryptMethod ELSE ErrInvalidGroupID
        /\ err = NoErr /\ PlainLayout(tag) =>
              \A w \in {WireFrames(Drop(stream, 10))} :
                 /\ Len(w) = Len(prev.Frames)
                 /\ \A i \in 1..Len(w) :
                       "Unsynchronized" \notin prev.Frames[i].Header.Flags =>
                          w[i].body = FrameRegion(prev.Frames[i])

DecoderAtExtended(file) ==
    Only({DecodeUnsync(s8) : s8 \in
         {LoadTag(s7) : s7 \in
         {DecodeHeader(s6) : s6 \in
         {LoadHeader(s5) : s5 \in
         {PickCodec(s4) : s4 \in
         {ReadVersion(s3) : s3 \in
         {CheckFileID(s2) : s2 \in
         {ReadFileID(s1) : s1 \in
         {newDecoder(NewTag, newReader(file))}}}}}}}}})

\* The bytes that the blocks of an extended header with the flag byte fl take.
ExBlocks(fl) == 6 + Bit(fl, 6) + 6 * Bit(fl, 5) + 2 * Bit(fl, 4)

ExCRCAt(fl) == 7 + Bit(fl, 6)

ExRestrictionsAt(fl) == ExCRCAt(fl) + 6 * Bit(fl, 5)

\* The bytes that Encode has to write for the extended header of t, but for the
\* value of the CRC.
ExWritten(t, b) ==
    \A fl \in {FlagEncode(headerExFlags, t.Flags)} :
       /\ Len(b) >= ExBlocks(fl)
       /\ Take(b, 4) = SyncSafe4(ExBlocks(fl))
       /\ b[5] = 1
       /\ b[6] = fl
       /\ fl = 64 * (IF "IsUpdate" \in t.Flags THEN 1 ELSE 0)
               + 32 * (IF "HasCRC" \in t.Flags THEN 1 ELSE 0)
               + 16 * (IF "HasRestrictions" \in t.Flags THEN 1 ELSE 0)
       /\ "IsUpdate" \in t.Flags => b[7] = 0
       /\ "HasCRC" \in t.Flags =>
             /\ b[ExCRCAt(fl)] = 5
             /\ \A k \in 1..5 : b[ExCRCAt(fl) + k] < 128
       /\ "HasRestrictions" \in t.Flags =>
             SubSeq(b, ExRestrictionsAt(fl), ExRestrictionsAt(fl) + 1)
                 = <<1, t.Restrictions>>

ExtendedWritten ==
    pc = "written" /\ err = NoErr /\ "Extended" \in tag.Flags =>
        /\ ExWritten(tag, Drop(stream, 10))
        /\ \A d0 \in {DecoderAtExtended(stream)} :
              \A d1 \in {DecodeExtendedHeader(d0)} :
                 \A n \in {ExBlocks(stream[16])} :
                    /\ d0.err = NoErr /\ d1.err = NoErr
                    /\ Take(d0.r.buf, n) = SubSeq(stream, 11, 10 + n)
                    /\ d1.r.buf = Drop(d0.r.buf, n)
                    /\ d1.exSize = n /\ d1.exBytesConsumed = n
                    /\ d1.t.Flags \cap ExtendedFlags = prev.Flags \cap ExtendedFlags
                    /\ "HasRestrictions" \in prev.Flags =>
                          d1.t.Restrictions = prev.Restrictions
                    /\ Len(prev.Frames) > 0 =>
                          Take(d1.r.buf, 4) = prev.Frames[1].Header.FrameID

\* What Decode has to make of the extended header at the start of b, all of whose
\* blocks are there.
ExExpected(b) ==
    LET fl == b[6]
    IN IF b[5] # 1 THEN ErrInvalidHeader
       ELSE IF Bit(fl, 5) = 1 /\ b[ExCRCAt(fl)] # 5 THEN ErrInvalidHeader
       ELSE IF Bit(fl, 5) = 1 /\ \E k \in 1..5 : b[ExCRCAt(fl) + k] >= 128
            THEN ErrInvalidHeader
       ELSE IF Bit(fl, 4) = 1 /\ b[ExRestrictionsAt(fl)] # 1 THEN ErrInvalidHeader
       ELSE IF SyncSafeValue(Take(b, 4)) > Len(b) THEN errInsufficientBuffer
       ELSE NoErr

ExtendedRead ==
    pc = "parsed" =>
        \A d0 \in {DecoderAtExtended(stream)} :
           \A b \in {d0.r.buf} :
              /\ d0.err = NoErr
              /\ "Extended" \in d0.t.Flags
              /\ Len(b) >= 6
              /\ \A i \in 1..4 : b[i] < 128
              /\ Len(b) >= ExBlocks(b[6])
              => \A d1 \in {DecodeExtendedHeader(d0)} :
                    /\ d1.err = ExExpected(b)
                    /\ d1.err # NoErr => err = d1.err
                    /\ d1.err = NoErr =>
                          /\ d1.t.Flags \cap ExtendedFlags
                                = FlagDecode(headerExFlags, b[6])
                          /\ Bit(b[6], 4) = 1 =>
                                d1.t.Restrictions = b[ExRestrictionsAt(b[6]) + 1]
                          /\ d1.r.buf =
                                Drop(b, IF SyncSafeValue(Take(b, 4)) > ExBlocks(b[6])
                                        THEN SyncSafeValue(Take(b, 4))
                                        ELSE ExBlocks(b[6]))

ExtendedRoundtrip == ExtendedWritten /\ ExtendedRead

\* A tag with all three blocks and the restrictions byte 255 has been written.
ExtendedRoundtripWitness ==
    /\ pc = "written"
    /\ err = NoErr
    /\ {"IsUpdate", "HasCRC", "HasRestrictions"} \subseteq tag.Flags
    /\ tag.Restrictions = 255
    /\ SubSeq(stream, 11, 18) = <<0, 0, 0, 15, 1, 112, 0, 5>>
    /\ SubSeq(stream, 24, 25) = <<1, 255>>


(***************************************************************************)
(* C21.  The frame header of version 2.3.  read23 takes the bits 15, 14,   *)
(* 13, 7, 6 and 5 of the two flag bytes as DiscardOnTagAlteration,         *)
(* DiscardOnFileAlteration, ReadOnly, Compressed, Encrypted and HasGroupID *)
(* and sets neither Unsynchronized nor HasDataLength; the size is four     *)
(* bytes, the most significant first, with all eight bits of each byte;    *)
(* and a header with a four-byte ID and none but these six flags that is   *)
(* written by write23 is read back by read23 with its ID, size and flags.  *)
(***************************************************************************)
Flags23 ==
    {"DiscardOnTagAlteration", "DiscardOnFileAlteration", "ReadOnly", "Compressed",
     "Encrypted", "HasGroupID"}

\* The flag of the bit k of the byte at i of the header bytes b.
FlagAt23(b, i, k, flag, fl) == (flag \in fl) <=> (b[i] \div Pow2(k)) % 2 = 1

FlagBytes23(b, fl) ==
    /\ FlagAt23(b, 9, 7, "DiscardOnTagAlteration", fl)
    /\ FlagAt23(b, 9, 6, "DiscardOnFileAlteration", fl)
    /\ FlagAt23(b, 9, 5, "ReadOnly", fl)
    /\ FlagAt23(b, 10, 7, "Compressed", fl)
    /\ FlagAt23(b, 10, 6, "Encrypted", fl)
    /\ FlagAt23(b, 10, 5, "HasGroupID", fl)

Frame23Read ==
    pc = "parsed" /\ Len(stream) >= 10 =>
        /\ err = NoErr
        /\ nbytes = 10
        /\ tag.IDvalue = SubSeq(stream, 1, 4)
        /\ \A i \in 1..4 : tag.Size[i] = stream[4 + i]
        /\ stream[5] < 128 =>
              U32ToInt(tag.Size)
                 = stream[5] * 16777216 + stream[6] * 65536 + stream[7] * 256 + stream[8]
        /\ tag.Flags \subseteq Flags23
        /\ FlagBytes23(stream, tag.Flags)

Frame23Written ==
    pc = "written" /\ err = NoErr =>
        \A n \in {Len(prev.IDvalue)} :
           /\ Len(stream) = n + 6
           /\ nbytes = n + 6
           /\ Take(stream, n) = prev.IDvalue
           /\ \A i \in 1..4 : stream[n + i] = prev.Size[i]
           /\ n = 4 =>
                 /\ FlagBytes23(stream, prev.Flags \cap Flags23)
                 /\ stream[9] % 32 = 0
                 /\ stream[10] % 32 = 0

Frame23Roundtrip ==
    pc = "read" /\ Len(prev.IDvalue) = 4 /\ prev.Flags \subseteq Flags23 =>
        /\ err = NoErr
        /\ tag = prev

FrameHeader23Codec == Frame23Read /\ Frame23Written /\ Frame23Roundtrip

\* A header with all six flags and a size above 2^31 has been written and read.
FrameHeader23CodecWitness ==
    /\ pc = "read"
    /\ prev = FrameHeader23(IdAPIC, <<255, 254, 253, 252>>, Flags23)
    /\ tag = prev
    /\ stream = IdAPIC \o <<255, 254, 253, 252, 224, 224>>


(***************************************************************************)
(* C22.  What Encode writes to the tag it is handed.  After a call of      *)
(* Encode, with or without an error, the tag has the Version, the          *)
(* Restrictions, the Padding and the Frames it had before, and its Flags   *)
(* are those it had before, with or without Extended added.  prev is the   *)
(* tag as it was handed to Encode.                                         *)
(***************************************************************************)
\* All but the Padding.
EncodeKeepsFields ==
    Encoded =>
        /\ tag.Version = prev.Version
        /\ tag.Restrictions = prev.Restrictions
        /\ tag.Frames = prev.Frames
        /\ prev.Flags \subseteq tag.Flags
        /\ tag.Flags \ {"Extended"} = prev.Flags \ {"Extended"}

EncodeFrameEffect == EncodeKeepsFields /\ (Encoded => tag.Padding = prev.Padding)


(***************************************************************************)
(* C23.  What Encode has written without an error, Decode reads without an *)
(* error; and no frame that Encode writes has the size 0.  prev is the tag *)
(* as it was handed to Encode.                                             *)
(***************************************************************************)
\* The frames behind the header and the extended header of a file without
\* unsynchronization.
FramesWritten(file) == WireFrames(Drop(file, FramesStart(file)))

NoEmptyFrameWritten ==
    pc = "written" /\ err = NoErr /\ "Unsync" \notin tag.Flags =>
        /\ Len(FramesWritten(stream)) = Len(prev.Frames)
        /\ \A i \in 1..Len(prev.Frames) : Len(FramesWritten(stream)[i].body) > 0

EncodeDecodable == (pc = "read" => err = NoErr) /\ NoEmptyFrameWritten


(***************************************************************************)
(* C24.  Encode writes the whole tag to the sink or nothing.  If a frame   *)
(* has a group ID or an encryption method that is out of range, Encode     *)
(* returns the error of the first such frame and the sink has no byte, not *)
(* the tag header and not the frames before that frame; whenever Encode    *)
(* returns an error the sink has no byte; and if it returns none the sink  *)
(* has the ten bytes of the header and the t.Size bytes behind it.  prev   *)
(* is the tag as it was handed to Encode.                                  *)
(***************************************************************************)
FrameInvalid(f) == GroupIDInvalid(f.Header) \/ EncryptMethodInvalid(f.Header)

\* The first frame of fs that is invalid, 0 if there is none.
FirstInvalid(fs) ==
    IF \A i \in 1..Len(fs) : ~FrameInvalid(fs[i]) THEN 0
    ELSE CHOOSE i \in 1..Len(fs) :
            FrameInvalid(fs[i]) /\ \A j \in 1..(i - 1) : ~FrameInvalid(fs[j])

EncodeAllOrNothing ==
    Encoded =>
        /\ err # NoErr => stream = <<>> /\ nbytes = 0
        /\ err = NoErr => Len(stream) = 10 + tag.Size /\ nbytes = Len(stream)
        /\ \A k \in {FirstInvalid(prev.Frames)} :
              /\ k = 0 => err = NoErr
              /\ k > 0 =>
                    /\ err = IF EncryptMethodInvalid(prev.Frames[k].Header)
                             THEN ErrInvalidEncryptMethod ELSE ErrInvalidGroupID
                    /\ stream = <<>>

\* The second frame of a tag fails, behind a frame with a group ID in range.
EncodeAllOrNothingWitness ==
    /\ pc = "written"
    /\ Len(prev.Frames) = 2
    /\ prev.Frames[1] = NewFrame(IdB, {"HasGroupID"}, 128, 0, <<66>>)
    /\ prev.Frames[2] = NewFrame(IdB, {"HasGroupID"}, 127, 0, <<66>>)
    /\ err = ErrInvalidGroupID
    /\ stream = <<>>


(***************************************************************************)
(* C25.  Decode comes to an end.  A turn of the frame loop returns an      *)
(* error, or meets padding and leaves the reader empty, or takes eleven    *)
(* bytes or more from the reader; a turn of the loop of scanStructSlice    *)
(* sets the scanner's error or takes a byte or more from the scanner; and  *)
(* both loops are left in the end, whatever the input.                     *)
(***************************************************************************)
FrameTurnTakes ==
    DecodeFrameTurn =>
        \/ err' # NoErr /\ pc' = "parsed"
        \/ /\ prev'.last.err = errPaddingEncountered
           /\ Len(prev'.r.buf) = 0
           /\ pc' = "parsed"
        \/ Len(prev'.r.buf) + 11 <= Len(prev.r.buf)

ElemTurnTakes ==
    ScanElemTurn =>
        \/ err' # NoErr /\ pc' = "scanned"
        \/ Len(prev'.sc.s.buf) < Len(prev.sc.s.buf)

DecodeTerminates ==
    /\ [][FrameTurnTakes]_vars
    /\ [][ElemTurnTakes]_vars
    /\ <>[](pc \in {"parsed", "scanned"})

\* The loops taken turn by turn end as Decode and scanStructSlice do.
LoopsAgree ==
    /\ pc = "parsed" =>
          \A d \in {ReadFrom(NewTag, stream)} : tag = d.t /\ err = d.err
    /\ pc = "scanned" =>
          \A sc \in {scanStructSlice(ListScanner(stream, prev.sc.state.encoding).sc,
                                     Field("Sync", "StructSlice", "", {}, LyricsSync))} :
             /\ err = sc.s.err
             /\ prev.sc.s = sc.s
             /\ err = NoErr => prev.sc.v = sc.v

\* The frame loop has taken two turns and ended without an error.
DecodeTerminatesWitness ==
    /\ pc = "parsed"
    /\ err = NoErr
    /\ nbytes = 2
    /\ Len(tag.Frames) = 2

\* The loop of scanStructSlice has taken two turns and set a list of two records.
ListTerminatesWitness ==
    /\ pc = "scanned"
    /\ err = NoErr
    /\ nbytes = 2
    /\ Len(prev.sc.v) = 2


(***************************************************************************)
(* The session state of the shell.                                         *)
(***************************************************************************)
\* The tag that ReadFrom gives from the bytes of file name at offset off.
TagOfFile(name, off) == ReadFrom(NewTag, Drop(FileSystem[name], off))

\* ReadFrom has left d without an error and with the tag t.
ReadAs(d, t) == d.err = NoErr /\ d.t = t

\* The active frame, when set, points to a frame of the active tag.
ActiveFrameOfActiveTag ==
    tag.activeFrame # Nil =>
        /\ tag.activeTag # Nil
        /\ \E i \in 1..Len(tag.activeTag[1].Tag.Frames) :
               tag.activeFrame = FramePtr(tag.activeTag, i)

\* The active tag, when set, was read from the active file.
ActiveTagOfActiveFile ==
    tag.activeTag # Nil =>
        /\ tag.activeFile = Ptr(tag.activeTag[1].file)
        /\ tag.activeTag[1].at <= Len(FileSystem[tag.activeTag[1].file])
        /\ ReadAs(TagOfFile(tag.activeTag[1].file, tag.activeTag[1].at),
                  tag.activeTag[1].Tag)

\* The last command was a file open that failed, or a tag read that failed.
OpenFailed == pc = "file open" /\ rdErr # NoErr

TagReadFailed == pc = "tag read" /\ err # NoErr

\* A file open or a tag read that failed has left the active file, the active
\* tag and the active frame as they were.
FailureKeepsActive ==
    OpenFailed \/ TagReadFailed =>
        /\ tag.activeFile = prev.activeFile
        /\ tag.activeTag = prev.activeTag
        /\ tag.activeFrame = prev.activeFrame

\* C26: after any sequence of the commands file open, file read, file close, tag
\* read, frame activate and frame deactivate, the active frame (when set) is one
\* of the frames of the active tag, the active tag (when set) was read from the
\* active file, and a file open or a tag read that failed has left the active
\* file, the active tag and the active frame unchanged.
ReplSessionState ==
    /\ ActiveFrameOfActiveTag
    /\ ActiveTagOfActiveFile
    /\ FailureKeepsActive

=============================================================================
